---- MODULE Spec2Model ----
(***************************************************************************)
(* PriceAdjuster (printify_automation_script_Copy/src/price_adjuster.py):  *)
(* the rule-driven price adjustment lifecycle.                             *)
(*                                                                         *)
(* Units.  Prices and costs are cents in the source (floats).  Here a      *)
(* price is an integer number of hundredths of a cent, so that the values  *)
(* the code produces (1999 * 15 / 100 = 299.85 cents) stay exact.          *)
(* Percentages that are quotients are kept as exact fractions              *)
(* [num, den] with den > 0.  Times are hours on one wall clock.            *)
(* A confidence is kept in thousandths; the sums of the float literals     *)
(* that land one ulp below their decimal value are one thousandth lower.   *)
(***************************************************************************)
EXTENDS Integers, Sequences, FiniteSets, TLC

(* ------------------------------ bounds --------------------------------- *)
MaxAdjustments == 2
MaxTime == 48
TickHours == 24

Outcomes == {"true", "false", "raise"}

\* a PriceAlert (pricing_monitor.py); costs in cents
Alert(product_id, alert_type, old_value, new_value, severity) ==
  [product_id |-> product_id, variant_id |-> 1, alert_type |-> alert_type,
   old_value |-> old_value, new_value |-> new_value, severity |-> severity]

\* alerts that never lead to an adjustment: a rise below the rule's minimum
\* and an alert of another kind
QuietAlerts ==
  { Alert("p1", "cost_increase", 1100, 1122, "low"),
    Alert("p1", "margin_below_threshold", 1100, 1210, "medium") }

\* margin reports that stay at or above min_margin_percent
QuietMargins == { <<"p1", 1, 15>> }

(* ----------------------------- arithmetic ------------------------------ *)
Abs(x) == IF x < 0 THEN -x ELSE x

\* cents -> hundredths of a cent
Cents(c) == c * 100

\* exact fractions
Frac(n, d) == [num |-> n, den |-> d]
FracAbsGT(f, k) == Abs(f.num) > k * f.den
FracAbsLT(f, k) == Abs(f.num) < k * f.den
FracAbsLE(f, k) == Abs(f.num) <= k * f.den
FracGT(f, k) == f.num > k * f.den
FracLT(f, k) == f.num < k * f.den
FracIsZero(f) == f.num = 0

\* dict.get(key, default)
Get(dict, key, default) == IF key \in DOMAIN dict THEN dict[key] ELSE default

(* ------------------------------- rules --------------------------------- *)
\* pass_through_rate is in percent (0.8 -> 80), min_confidence in thousandths
DefaultRules ==
  << [name |-> "Cost Increase Response", trigger |-> "cost_increase",
      conditions |-> [min_cost_increase_percent |-> 5,
                      max_cost_increase_percent |-> 50],
      action |-> [pass_through_rate |-> 80, round_to_cents |-> 99],
      enabled |-> TRUE, auto_execute |-> FALSE,
      max_adjustment_percent |-> 25, min_confidence |-> 700,
      cooldown_hours |-> 24],
     [name |-> "Cost Decrease Response", trigger |-> "cost_decrease",
      conditions |-> [min_cost_decrease_percent |-> 10,
                      maintain_margin_above |-> 20],
      action |-> [pass_through_rate |-> 50, round_to_cents |-> 99],
      enabled |-> TRUE, auto_execute |-> TRUE,
      max_adjustment_percent |-> 15, min_confidence |-> 700,
      cooldown_hours |-> 72],
     [name |-> "Minimum Margin Protection", trigger |-> "margin_below_threshold",
      conditions |-> [min_margin_percent |-> 15, target_margin_percent |-> 25],
      action |-> [target_margin |-> 25, round_to_cents |-> 99],
      enabled |-> TRUE, auto_execute |-> FALSE,
      max_adjustment_percent |-> 30, min_confidence |-> 900,
      cooldown_hours |-> 24],
     [name |-> "Seasonal Pricing", trigger |-> "seasonal_adjustment",
      conditions |-> [max_seasonal_markup |-> 15],
      action |-> [duration_days |-> 30],
      enabled |-> TRUE, auto_execute |-> TRUE,
      max_adjustment_percent |-> 15, min_confidence |-> 700,
      cooldown_hours |-> 168] >>

\* The rule list is plain data (AdjustmentRule records in a public list).
\* Besides the default set, a deployment that demands confidence 0.9 before
\* a cost decrease is auto-executed and leaves the margin rule's cap at the
\* AdjustmentRule default of 15 percent.
TightRules ==
  [DefaultRules EXCEPT ![2].min_confidence = 900,
                       ![3].max_adjustment_percent = 15]

\* A rule list with a disabled rule ahead of the enabled ones of its trigger:
\* the default cost-increase rule switched off, a rule for rises of 20 to 40
\* percent, the default cost-increase rule once more (enabled), and the
\* cost-decrease rule switched off.
StagedRules ==
  << [DefaultRules[1] EXCEPT !.enabled = FALSE],
     [name |-> "Large Increase Response", trigger |-> "cost_increase",
      conditions |-> [min_cost_increase_percent |-> 20,
                      max_cost_increase_percent |-> 40],
      action |-> [pass_through_rate |-> 80, round_to_cents |-> 99],
      enabled |-> TRUE, auto_execute |-> FALSE,
      max_adjustment_percent |-> 25, min_confidence |-> 700,
      cooldown_hours |-> 24],
     DefaultRules[1],
     [DefaultRules[2] EXCEPT !.enabled = FALSE],
     DefaultRules[3],
     DefaultRules[4] >>

(* --------------------------- pure functions ---------------------------- *)
\* placeholder lookups of the source: $19.99 and $11.00
_get_current_price(product_id, variant_id) == Cents(1999)

_get_current_cost(product_id, variant_id) == Cents(1100)

\* round(x) of Python on a price: nearest cent, ties to the even cent
PyRound(price) ==
  LET q == price \div 100
      r == price % 100
  IN  IF r > 50 THEN Cents(q + 1)
      ELSE IF r < 50 THEN Cents(q)
      ELSE IF q % 2 = 0 THEN Cents(q) ELSE Cents(q + 1)

_round_price(price, round_to_cents) ==
  IF round_to_cents = 99
  THEN LET dollars == price \div Cents(100) IN Cents((dollars * 100) + 99)
  ELSE IF round_to_cents = 95
  THEN LET dollars == price \div Cents(100) IN Cents((dollars * 100) + 95)
  ELSE PyRound(price)

severity_factors == [low |-> 100, medium |-> 200, high |-> 300, critical |-> 400]

\* (severity, magnitude, trigger) bonuses whose IEEE-754 sum with the 0.5
\* base is one ulp below the decimal value (0.5 + 0.2 + 0.1 + 0.1 =
\* 0.8999999999999999)
FloatDeficit ==
  { <<100, 100, 100>>, <<100, 300, 0>>, <<100, 300, 100>>, <<200, 0, 100>>,
    <<200, 100, 0>>, <<200, 100, 100>>, <<200, 200, 0>>, <<200, 200, 100>> }

_calculate_adjustment_confidence(cost_change_percent, severity, rule) ==
  LET sev == Get(severity_factors, severity, 200)
      mag == IF FracAbsGT(cost_change_percent, 20) THEN 300
             ELSE IF FracAbsGT(cost_change_percent, 10) THEN 200
             ELSE IF FracAbsGT(cost_change_percent, 5) THEN 100
             ELSE 0
      trg == IF rule.trigger = "cost_increase" THEN 100 ELSE 0
      base_confidence == 500 + sev + mag + trg
  IN  IF base_confidence > 1000 THEN 1000
      ELSE IF <<sev, mag, trg>> \in FloatDeficit THEN base_confidence - 1
      ELSE base_confidence

_analyze_adjustment_impact(current_price, proposed_price, new_cost) ==
  LET price_change == proposed_price - current_price
      price_change_percent == Frac(price_change * 100, current_price)
  IN  [price_change |-> price_change,
       price_change_percent |-> price_change_percent,
       new_margin_percent |->
         IF proposed_price > 0
         THEN Frac((proposed_price - new_cost) * 100, proposed_price)
         ELSE Frac(0, 1),
       risk_level |->
         IF FracAbsLT(price_change_percent, 5) THEN "low"
         ELSE IF FracAbsLT(price_change_percent, 15) THEN "medium"
         ELSE "high"]

\* PriceAdjustment(...) with created_at, expires_at, status and executed_at
\* left to their defaults, followed by __post_init__
PriceAdjustment(product_id, variant_id, current_price, proposed_price, adjustment_percent, trigger, reason, confidence, impact_analysis, clock) ==
  [product_id |-> product_id,
   variant_id |-> variant_id,
   current_price |-> current_price,
   proposed_price |-> proposed_price,
   adjustment_percent |->
     IF FracIsZero(adjustment_percent) /\ current_price > 0
     THEN Frac((proposed_price - current_price) * 100, current_price)
     ELSE adjustment_percent,
   trigger |-> trigger,
   reason |-> reason,
   confidence |-> confidence,
   impact_analysis |-> impact_analysis,
   created_at |-> clock,
   expires_at |-> clock + 24,
   status |-> "pending",
   executed_at |-> << >>]

\* << >> is None, <<adjustment>> the PriceAdjustment built
_calculate_cost_change_adjustment(alert, rule, clock) ==
  LET cost_change_percent ==
        Frac((alert.new_value - alert.old_value) * 100, alert.old_value)
      min_threshold ==
        IF alert.alert_type = "cost_increase"
        THEN Get(rule.conditions, "min_cost_increase_percent", 0)
        ELSE Get(rule.conditions, "min_cost_decrease_percent", 0)
      max_threshold ==
        IF alert.alert_type = "cost_increase"
        THEN Get(rule.conditions, "max_cost_increase_percent", 100)
        ELSE Get(rule.conditions, "max_cost_decrease_percent", 100)
      current_price == _get_current_price(alert.product_id, alert.variant_id)
      cost_change_amount == alert.new_value - alert.old_value
      pass_through_rate == Get(rule.action, "pass_through_rate", 80)
      price_adjustment == cost_change_amount * pass_through_rate
      unrounded == current_price + price_adjustment
      round_to_cents == Get(rule.action, "round_to_cents", 99)
      rounded == IF round_to_cents # 0
                 THEN _round_price(unrounded, round_to_cents)
                 ELSE unrounded
      confidence ==
        _calculate_adjustment_confidence(cost_change_percent, alert.severity, rule)
      impact_analysis ==
        _analyze_adjustment_impact(current_price, rounded, Cents(alert.new_value))
      percent == Frac((rounded - current_price) * 100, current_price)
      over == FracAbsGT(percent, rule.max_adjustment_percent)
      max_change == (current_price * rule.max_adjustment_percent) \div 100
      proposed_price ==
        IF over
        THEN IF FracGT(percent, 0) THEN current_price + max_change
                                   ELSE current_price - max_change
        ELSE rounded
      adjustment_percent ==
        IF over
        THEN IF FracGT(percent, 0)
             THEN Frac(rule.max_adjustment_percent * current_price, current_price)
             ELSE Frac(-(rule.max_adjustment_percent * current_price), current_price)
        ELSE percent
  IN  IF FracAbsLT(cost_change_percent, min_threshold)
         \/ FracAbsGT(cost_change_percent, max_threshold)
      THEN << >>
      ELSE IF current_price = 0
      THEN << >>
      ELSE << PriceAdjustment(alert.product_id, alert.variant_id, current_price,
                              proposed_price, adjustment_percent,
                              alert.alert_type, rule.name, confidence,
                              impact_analysis, clock) >>

\* datetime.now() - last_adjustment > timedelta(hours = rule.cooldown_hours)
_check_cooldown(last_times, product_key, rule, clock) ==
  IF product_key \notin DOMAIN last_times
  THEN TRUE
  ELSE clock - last_times[product_key] > rule.cooldown_hours

\* as ApplicableRules, without the test of rule.enabled
ApplicableRules_ignoring_enabled(rules, trigger) ==
  SelectSeq(rules, LAMBDA rule : rule.trigger = trigger)

\* [rule for rule in rules if rule.trigger == trigger and rule.enabled]
ApplicableRules(rules, trigger) ==
  SelectSeq(rules, LAMBDA rule : rule.trigger = trigger /\ rule.enabled)

ProductKey(product_id, variant_id) == <<product_id, variant_id>>

(* ------------------------------ scenarios ------------------------------ *)
\* What one run is fed with: the rule list in force, the cost alerts the
\* monitor delivers and the (product, variant, margin) breaches reported.
Scenario(rules, alerts, margins) ==
  [rules |-> rules, alerts |-> alerts, margins |-> margins]

Scenarios ==
  { Scenario(DefaultRules,
             { Alert("p1", "cost_increase", 1100, 1210, "medium"),
               Alert("p2", "cost_increase", 1100, 1210, "medium") }, {}),
    Scenario(DefaultRules,
             { Alert("p1", "cost_increase", 2000, 3000, "low"),
               Alert("p1", "cost_decrease", 1210, 1089, "low") }, {}),
    Scenario(TightRules,
             { Alert("p1", "cost_decrease", 1210, 1089, "medium"),
               Alert("p1", "cost_decrease", 2000, 1000, "medium") }, {}),
    Scenario(StagedRules,
             { Alert("p1", "cost_increase", 1100, 1210, "medium"),
               Alert("p1", "cost_increase", 1000, 1300, "medium"),
               Alert("p1", "cost_increase", 1000, 1500, "medium"),
               Alert("p1", "cost_decrease", 2000, 1000, "medium") }, {}),
    Scenario(TightRules, QuietAlerts,
             { <<"p1", 1, 5>>, <<"p2", 1, 12>> } \cup QuietMargins) }

\* CostAnalyzer.__init__: target_margin, min_margin and max_margin of the config,
\* in percent
CostAnalyzer(target_margin, min_margin, max_margin) ==
  [default_target_margin |-> target_margin, min_margin_threshold |-> min_margin,
   max_margin_threshold |-> max_margin]

DefaultAnalyzer == CostAnalyzer(30, 15, 80)

\* threading.Thread(target=self._monitoring_loop, args=(api_client,)): pc is
\* where the loop is ("none" while there is no thread, "done" once it has
\* returned), woke what its last Event.wait returned, late_checks the number of
\* cost-update checks it began while the stop signal was set
Thread(pc, api_client) ==
  [pc |-> pc, api_client |-> api_client, woke |-> FALSE, late_checks |-> 0]

\* PricingMonitor.__init__: no thread, the Event clear
NoThread == Thread("none", FALSE)

\* the threads that call the PriceAdjuster
Threads == {"t1", "t2"}

\* a thread that is in no call; op is the method a thread is in, pc the
\* statement it is at, i its position in the list it goes through (or the
\* index it was given), cur the adjustment it holds, expired the local list of
\* cleanup_expired_adjustments
Worker(op, pc, i, cur, expired) ==
  [op |-> op, pc |-> pc, i |-> i, cur |-> cur, expired |-> expired]

Idle == Worker("idle", "idle", 0, 0, << >>)

(* ------------------------------- state --------------------------------- *)
VARIABLES
  now,                    \* datetime.now(), in hours
  feed,                   \* the alerts and margin breaches this run delivers
  adjustment_rules,       \* self.adjustment_rules
  price_update_callback,  \* self.price_update_callback: "none" or "installed"
  adjustments,            \* the PriceAdjustment objects; an index is an identity
  pending_adjustments,    \* self.pending_adjustments, as object identities
  adjustment_history,     \* self.adjustment_history, as object identities
  last_adjustment_times,  \* self.last_adjustment_times: dict product key -> time
  ret,                    \* the last call: the value returned, what the callback
                          \* answered during it, whether it raised
  price_history,          \* PricingMonitor.price_history: dict key -> [PricePoint]
  current_costs,          \* PricingMonitor.current_costs: dict key -> CostData
  active_alerts,          \* PricingMonitor.active_alerts: the list of PriceAlert
  data_file,              \* the file at PricingMonitor.data_file: << >> when missing
  alert_file,             \* the file at PricingMonitor.alert_file: << >> when missing
  competitors,            \* MarketTracker.competitors: dict id -> its entry
  competitor_prices,      \* MarketTracker.competitor_prices: dict key -> [CompetitorPrice]
  market_segments,        \* MarketTracker.market_segments: dict category -> MarketSegment
  market_data_file,       \* the file at MarketTracker.data_file: << >> when missing
  analyzer,               \* the CostAnalyzer: its margin parameters
  recommendation,         \* what recommend_pricing_strategy returned last
  monitoring_enabled,     \* PricingMonitor.monitoring_enabled
  _stop_monitoring,       \* PricingMonitor._stop_monitoring: is the Event set
  _monitor_thread,        \* PricingMonitor._monitor_thread: where the loop is
  stopping,               \* where a caller of stop_monitoring is
  workers,                \* the threads that call the PriceAdjuster: where each is
  applied                 \* the adjustments whose price the callback has applied

adjusterVars == <<feed, adjustment_rules, price_update_callback, adjustments,
                  pending_adjustments, adjustment_history, last_adjustment_times>>

monitorVars == <<price_history, current_costs, active_alerts, data_file, alert_file>>

trackerVars ==
  <<competitors, competitor_prices, market_segments, market_data_file>>

analyzerVars == <<analyzer, recommendation>>

loopVars == <<monitoring_enabled, _stop_monitoring, _monitor_thread, stopping>>

workerVars == <<workers, applied>>

vars ==
  <<now, ret, adjusterVars, monitorVars, trackerVars, analyzerVars, loopVars,
    workerVars>>

\* what the calls on one object leave alone: the other objects
outsideAdjuster == <<monitorVars, trackerVars, analyzerVars, loopVars, workerVars>>

outsideMonitor == <<adjusterVars, trackerVars, analyzerVars, loopVars, workerVars>>

outsideTracker == <<adjusterVars, monitorVars, analyzerVars, loopVars, workerVars>>

\* the part of the state the handlers read and write
Heap == [adj |-> adjustments, pending |-> pending_adjustments,
         history |-> adjustment_history, last |-> last_adjustment_times,
         calls |-> << >>]

\* ok: the truth value of what the call returned (True, a PriceAdjustment, a
\* non-empty list; not False, None, []); result: the adjustments returned
Returned(ok, result, calls, raised) ==
  [ok |-> ok, result |-> result, calls |-> calls, raised |-> raised]

Store(st) ==
  /\ adjustments' = st.adj
  /\ pending_adjustments' = st.pending
  /\ adjustment_history' = st.history
  /\ last_adjustment_times' = st.last

\* list.remove(x): drops the first occurrence
RECURSIVE ListRemove(_, _)
ListRemove(list, x) ==
  IF list = << >> THEN << >>
  ELSE IF Head(list) = x THEN Tail(list)
  ELSE <<Head(list)>> \o ListRemove(Tail(list), x)

\* for x in xs: list.remove(x)
RECURSIVE RemoveEach(_, _)
RemoveEach(list, xs) ==
  IF xs = << >> THEN list
  ELSE RemoveEach(ListRemove(list, Head(xs)), Tail(xs))

InList(list, x) == \E i \in DOMAIN list : list[i] = x

(* ------------------------------ handlers ------------------------------- *)
\* as _execute_adjustment, but the tracking of the last adjustment time is
\* updated before the callback's answer is looked at
_execute_adjustment_tracks_first(st, id, callback, outcomes, clock) ==
  IF callback = "none"
  THEN [st |-> st, ok |-> FALSE]
  ELSE LET success == outcomes[Len(st.calls) + 1]
           product_key == ProductKey(st.adj[id].product_id, st.adj[id].variant_id)
           last1 == [k \in DOMAIN st.last \cup {product_key} |->
                       IF k = product_key THEN clock ELSE st.last[k]]
           called == [st EXCEPT !.calls = Append(st.calls, success),
                                !.last = last1]
       IN  IF success = "true"
           THEN [st |-> [called EXCEPT
                           !.adj = [st.adj EXCEPT ![id].status = "executed",
                                                  ![id].executed_at = <<clock>>],
                           !.history = Append(st.history, id),
                           !.pending = ListRemove(st.pending, id)],
                 ok |-> TRUE]
           ELSE [st |-> called, ok |-> FALSE]

\* as _execute_adjustment, but the executed entry stays in the pending list
_execute_adjustment_keeps_entry(st, id, callback, outcomes, clock) ==
  IF callback = "none"
  THEN [st |-> st, ok |-> FALSE]
  ELSE LET success == outcomes[Len(st.calls) + 1]
           called == [st EXCEPT !.calls = Append(st.calls, success)]
           product_key == ProductKey(st.adj[id].product_id, st.adj[id].variant_id)
           last1 == [k \in DOMAIN st.last \cup {product_key} |->
                       IF k = product_key THEN clock ELSE st.last[k]]
       IN  IF success = "true"
           THEN [st |-> [called EXCEPT
                           !.adj = [st.adj EXCEPT ![id].status = "executed",
                                                  ![id].executed_at = <<clock>>],
                           !.last = last1,
                           !.history = Append(st.history, id)],
                 ok |-> TRUE]
           ELSE [st |-> called, ok |-> FALSE]

\* as _execute_adjustment, but the executed entry takes the applied price as
\* its current price
_execute_adjustment_updates_price(st, id, callback, outcomes, clock) ==
  IF callback = "none"
  THEN [st |-> st, ok |-> FALSE]
  ELSE LET success == outcomes[Len(st.calls) + 1]
           called == [st EXCEPT !.calls = Append(st.calls, success)]
           product_key == ProductKey(st.adj[id].product_id, st.adj[id].variant_id)
           last1 == [k \in DOMAIN st.last \cup {product_key} |->
                       IF k = product_key THEN clock ELSE st.last[k]]
       IN  IF success = "true"
           THEN [st |-> [called EXCEPT
                           !.adj = [st.adj EXCEPT
                                      ![id].status = "executed",
                                      ![id].executed_at = <<clock>>,
                                      ![id].current_price = st.adj[id].proposed_price],
                           !.last = last1,
                           !.history = Append(st.history, id),
                           !.pending = ListRemove(st.pending, id)],
                 ok |-> TRUE]
           ELSE [st |-> called, ok |-> FALSE]

\* [st |-> the state afterwards, ok |-> the value returned].  st.calls is the
\* list of answers the callback has given so far during the current call;
\* outcomes[k] is what the callback answers the k-th time it is called.
_execute_adjustment(st, id, callback, outcomes, clock) ==
  IF callback = "none"
  THEN [st |-> st, ok |-> FALSE]
  ELSE LET success == outcomes[Len(st.calls) + 1]
           called == [st EXCEPT !.calls = Append(st.calls, success)]
           product_key == ProductKey(st.adj[id].product_id, st.adj[id].variant_id)
           adj1 == [st.adj EXCEPT ![id].status = "executed",
                                  ![id].executed_at = <<clock>>]
           last1 == [k \in DOMAIN st.last \cup {product_key} |->
                       IF k = product_key THEN clock ELSE st.last[k]]
           history1 == Append(st.history, id)
           pending1 == IF InList(st.pending, id)
                       THEN ListRemove(st.pending, id)
                       ELSE st.pending
       IN  IF success = "true"
           THEN [st |-> [adj |-> adj1, pending |-> pending1,
                         history |-> history1, last |-> last1,
                         calls |-> called.calls],
                 ok |-> TRUE]
           ELSE [st |-> called, ok |-> FALSE]

\* for adjustment in self.pending_adjustments: ... ; the list iterator keeps
\* a position i into the list, which the body may shorten
RECURSIVE ExecuteLoop(_, _, _, _, _, _)
ExecuteLoop(i, st, executed, callback, outcomes, clock) ==
  IF i > Len(st.pending)
  THEN [st |-> st, executed |-> executed]
  ELSE LET id == st.pending[i]
       IN  IF st.adj[id].status = "approved"
           THEN LET r == _execute_adjustment(st, id, callback, outcomes, clock)
                IN  ExecuteLoop(i + 1, r.st,
                                IF r.ok THEN Append(executed, id) ELSE executed,
                                callback, outcomes, clock)
           ELSE ExecuteLoop(i + 1, st, executed, callback, outcomes, clock)

execute_approved_adjustments(outcomes) ==
  LET r == ExecuteLoop(1, Heap, << >>, price_update_callback, outcomes, now)
  IN  /\ Store(r.st)
      /\ ret' = Returned(r.executed # << >>, r.executed, r.st.calls, FALSE)
      /\ UNCHANGED <<now, feed, adjustment_rules, price_update_callback>>

\* as approve_adjustment, without the test of the status
approve_adjustment_any_status(adjustment_index) ==
  /\ IF /\ 0 <= adjustment_index
        /\ adjustment_index < Len(pending_adjustments)
     THEN /\ adjustments' =
               [adjustments EXCEPT
                  ![pending_adjustments[adjustment_index + 1]].status = "approved"]
          /\ ret' = Returned(TRUE, << >>, << >>, FALSE)
     ELSE /\ UNCHANGED adjustments
          /\ ret' = Returned(FALSE, << >>, << >>, FALSE)
  /\ UNCHANGED <<now, feed, adjustment_rules, price_update_callback,
                 pending_adjustments, adjustment_history, last_adjustment_times>>

approve_adjustment(adjustment_index) ==
  /\ IF /\ 0 <= adjustment_index
        /\ adjustment_index < Len(pending_adjustments)
        /\ adjustments[pending_adjustments[adjustment_index + 1]].status = "pending"
     THEN /\ adjustments' =
               [adjustments EXCEPT
                  ![pending_adjustments[adjustment_index + 1]].status = "approved"]
          /\ ret' = Returned(TRUE, << >>, << >>, FALSE)
     ELSE /\ UNCHANGED adjustments
          /\ ret' = Returned(FALSE, << >>, << >>, FALSE)
  /\ UNCHANGED <<now, feed, adjustment_rules, price_update_callback,
                 pending_adjustments, adjustment_history, last_adjustment_times>>

\* as reject_adjustment, without the test of the status
reject_adjustment_any_status(adjustment_index) ==
  /\ IF /\ 0 <= adjustment_index
        /\ adjustment_index < Len(pending_adjustments)
     THEN /\ adjustments' =
               [adjustments EXCEPT
                  ![pending_adjustments[adjustment_index + 1]].status = "rejected"]
          /\ ret' = Returned(TRUE, << >>, << >>, FALSE)
     ELSE /\ UNCHANGED adjustments
          /\ ret' = Returned(FALSE, << >>, << >>, FALSE)
  /\ UNCHANGED <<now, feed, adjustment_rules, price_update_callback,
                 pending_adjustments, adjustment_history, last_adjustment_times>>

reject_adjustment(adjustment_index) ==
  /\ IF /\ 0 <= adjustment_index
        /\ adjustment_index < Len(pending_adjustments)
        /\ adjustments[pending_adjustments[adjustment_index + 1]].status = "pending"
     THEN /\ adjustments' =
               [adjustments EXCEPT
                  ![pending_adjustments[adjustment_index + 1]].status = "rejected"]
          /\ ret' = Returned(TRUE, << >>, << >>, FALSE)
     ELSE /\ UNCHANGED adjustments
          /\ ret' = Returned(FALSE, << >>, << >>, FALSE)
  /\ UNCHANGED <<now, feed, adjustment_rules, price_update_callback,
                 pending_adjustments, adjustment_history, last_adjustment_times>>

cleanup_expired_adjustments ==
  LET expired == SelectSeq(pending_adjustments,
                   LAMBDA id : /\ now > adjustments[id].expires_at
                               /\ adjustments[id].status = "pending")
  IN  /\ adjustments' =
           [id \in DOMAIN adjustments |->
              IF InList(expired, id)
              THEN [adjustments[id] EXCEPT !.status = "expired"]
              ELSE adjustments[id]]
      /\ pending_adjustments' = RemoveEach(pending_adjustments, expired)
      /\ adjustment_history' = adjustment_history \o expired
      /\ ret' = Returned(FALSE, << >>, << >>, FALSE)
      /\ UNCHANGED <<now, feed, adjustment_rules, price_update_callback,
                     last_adjustment_times>>

\* as auto_execute_conditions_met, without the test of the confidence
auto_execute_whenever_rule_allows(rule, adjustment) == rule.auto_execute

\* "Auto-execute if conditions are met"
auto_execute_conditions_met(rule, adjustment) ==
  rule.auto_execute /\ adjustment.confidence >= rule.min_confidence

process_cost_change_alert(alert, outcomes) ==
  LET trigger == alert.alert_type
      applicable_rules == ApplicableRules(adjustment_rules, trigger)
      rule == applicable_rules[1]
      product_key == ProductKey(alert.product_id, alert.variant_id)
      made == _calculate_cost_change_adjustment(alert, rule, now)
      id == Len(adjustments) + 1
      queued == [Heap EXCEPT !.adj = Append(adjustments, made[1]),
                             !.pending = Append(pending_adjustments, id)]
      after == IF auto_execute_conditions_met(rule, made[1])
               THEN _execute_adjustment(queued, id, price_update_callback,
                                        outcomes, now).st
               ELSE queued
      none == /\ UNCHANGED <<adjustments, pending_adjustments,
                             adjustment_history, last_adjustment_times>>
              /\ ret' = Returned(FALSE, << >>, << >>, FALSE)
  IN  /\ IF alert.alert_type \notin {"cost_increase", "cost_decrease"}
         THEN none
         ELSE IF applicable_rules = << >>
         THEN none
         ELSE IF ~_check_cooldown(last_adjustment_times, product_key, rule, now)
         THEN none
         ELSE IF made = << >>
         THEN none
         ELSE /\ Len(adjustments) < MaxAdjustments
              /\ Store(after)
              /\ ret' = Returned(TRUE, <<id>>,
                                 after.calls, FALSE)
      /\ UNCHANGED <<now, feed, adjustment_rules, price_update_callback>>

process_margin_alert(product_id, variant_id, current_margin) ==
  LET applicable_rules == ApplicableRules(adjustment_rules, "margin_below_threshold")
      rule == applicable_rules[1]
      min_margin == Get(rule.conditions, "min_margin_percent", 15)
      current_price == _get_current_price(product_id, variant_id)
      current_cost == _get_current_cost(product_id, variant_id)
      target_margin == Get(rule.action, "target_margin", 25)
      \* current_cost / (1 - target_margin / 100), cut to a hundredth of a cent
      unrounded == (current_cost * 100) \div (100 - target_margin)
      round_to_cents == Get(rule.action, "round_to_cents", 99)
      rounded == IF round_to_cents # 0
                 THEN _round_price(unrounded, round_to_cents)
                 ELSE unrounded
      percent == Frac((rounded - current_price) * 100, current_price)
      over == FracGT(percent, rule.max_adjustment_percent)
      required_price ==
        IF over
        THEN (current_price * (100 + rule.max_adjustment_percent)) \div 100
        ELSE rounded
      adjustment_percent ==
        IF over
        THEN Frac(rule.max_adjustment_percent * current_price, current_price)
        ELSE percent
      confidence == IF current_margin < 10 THEN 900 ELSE 700
      impact_analysis ==
        _analyze_adjustment_impact(current_price, required_price, current_cost)
      adjustment ==
        PriceAdjustment(product_id, variant_id, current_price, required_price,
                        adjustment_percent, "margin_below_threshold",
                        "Margin protection", confidence, impact_analysis, now)
      id == Len(adjustments) + 1
      none == /\ UNCHANGED <<adjustments, pending_adjustments>>
              /\ ret' = Returned(FALSE, << >>, << >>, FALSE)
  IN  /\ IF applicable_rules = << >>
         THEN none
         ELSE IF current_margin >= min_margin
         THEN none
         ELSE IF current_price = 0 \/ current_cost = 0
         THEN none
         ELSE /\ Len(adjustments) < MaxAdjustments
              /\ adjustments' = Append(adjustments, adjustment)
              /\ pending_adjustments' = Append(pending_adjustments, id)
              /\ ret' = Returned(TRUE, <<id>>, << >>, FALSE)
      /\ UNCHANGED <<now, feed, adjustment_rules, price_update_callback,
                     adjustment_history, last_adjustment_times>>

\* set_price_update_callback(callback); None is passed to take it out again
set_price_update_callback(callback) ==
  /\ price_update_callback' = callback
  /\ ret' = Returned(FALSE, << >>, << >>, FALSE)
  /\ UNCHANGED <<now, feed, adjustment_rules, adjustments, pending_adjustments,
                 adjustment_history, last_adjustment_times>>

\* the wall clock moves on between calls
Tick ==
  /\ now + TickHours <= MaxTime
  /\ now' = now + TickHours
  /\ ret' = Returned(FALSE, << >>, << >>, FALSE)
  /\ UNCHANGED <<feed, adjustment_rules, price_update_callback, adjustments,
                 pending_adjustments, adjustment_history, last_adjustment_times>>

(* ---------------------------- specification ---------------------------- *)
\* PriceAdjuster.__init__, with the rule list of the scenario in force
Init ==
  /\ now = 0
  /\ \E sc \in Scenarios :
       /\ feed = [alerts |-> sc.alerts, margins |-> sc.margins]
       /\ adjustment_rules = sc.rules
  /\ price_update_callback = "none"
  /\ adjustments = << >>
  /\ pending_adjustments = << >>
  /\ adjustment_history = << >>
  /\ last_adjustment_times = << >>
  /\ ret = Returned(FALSE, << >>, << >>, FALSE)
  /\ price_history = << >>
  /\ current_costs = << >>
  /\ active_alerts = << >>
  /\ data_file = << >>
  /\ alert_file = << >>
  /\ competitors = << >>
  /\ competitor_prices = << >>
  /\ market_segments = << >>
  /\ market_data_file = << >>
  /\ analyzer = DefaultAnalyzer
  /\ recommendation = << >>
  /\ monitoring_enabled = TRUE
  /\ _stop_monitoring = FALSE
  /\ _monitor_thread = NoThread
  /\ stopping = "idle"
  /\ workers = [t \in Threads |-> Idle]
  /\ applied = << >>

\* adjustment_index: a negative index, every index of the list, and the first
\* one past its end
Indices == -1 .. Len(pending_adjustments)

\* the callback is called at most once for each approved entry of the list
Approved == { i \in DOMAIN pending_adjustments :
                adjustments[pending_adjustments[i]].status = "approved" }

CallOutcomes(calls) ==
  IF price_update_callback = "none"
  THEN { << >> }
  ELSE [1 .. calls -> Outcomes]

\* process_cost_change_alert calls the callback, once, only under a rule with
\* auto_execute
AlertCalls(alert) ==
  LET applicable_rules == ApplicableRules(adjustment_rules, alert.alert_type)
  IN  IF applicable_rules # << >> /\ applicable_rules[1].auto_execute
      THEN 1
      ELSE 0

\* the calls on the PriceAdjuster; the PricingMonitor is not touched by them
Next ==
  \/ Tick /\ UNCHANGED outsideAdjuster
  \/ \E callback \in {"none", "installed"} :
       set_price_update_callback(callback) /\ UNCHANGED outsideAdjuster
  \/ \E alert \in feed.alerts : \E outcomes \in CallOutcomes(AlertCalls(alert)) :
       process_cost_change_alert(alert, outcomes) /\ UNCHANGED outsideAdjuster
  \/ \E m \in feed.margins :
       process_margin_alert(m[1], m[2], m[3]) /\ UNCHANGED outsideAdjuster
  \/ \E i \in Indices : approve_adjustment(i) /\ UNCHANGED outsideAdjuster
  \/ \E i \in Indices : reject_adjustment(i) /\ UNCHANGED outsideAdjuster
  \/ \E outcomes \in CallOutcomes(Cardinality(Approved)) :
       execute_approved_adjustments(outcomes) /\ UNCHANGED outsideAdjuster
  \/ cleanup_expired_adjustments /\ UNCHANGED outsideAdjuster

Spec == Init /\ [][Next]_vars

(* ------------------------------- claims -------------------------------- *)
StatusOf(id) == adjustments[id].status

PendingIds == { pending_adjustments[i] : i \in DOMAIN pending_adjustments }

\* the entry at index i (counted from 0) of the pending list exists and is PENDING
PendingAt(i) ==
  /\ 0 <= i
  /\ i < Len(pending_adjustments)
  /\ StatusOf(pending_adjustments[i + 1]) = "pending"

\* nothing but the status of the entry at index i changes, and it becomes status
OnlyStatusSet(i, status) ==
  /\ adjustments' =
       [adjustments EXCEPT ![pending_adjustments[i + 1]].status = status]
  /\ UNCHANGED <<pending_adjustments, adjustment_history, last_adjustment_times>>

NothingChanged ==
  UNCHANGED <<adjustments, pending_adjustments, adjustment_history,
              last_adjustment_times>>

\* the rule a produced adjustment came from: the first enabled rule of its trigger
RuleOf(adjustment) == ApplicableRules(adjustment_rules, adjustment.trigger)[1]

AllFail(outcomes) == \A k \in DOMAIN outcomes : outcomes[k] # "true"

AllTrue(outcomes) == \A k \in DOMAIN outcomes : outcomes[k] = "true"

\* C1: approve_adjustment(i) and reject_adjustment(i) return True and set the
\* status (to APPROVED, to REJECTED) exactly when the entry at index i of the
\* pending list exists and is PENDING; otherwise they return False and change
\* nothing.  After a success the entry at i is no longer PENDING, so a second
\* approve or reject on the same index returns False.
C1_DecideOnlyFromPending ==
  [][\A i \in Indices :
       /\ approve_adjustment(i) =>
            IF PendingAt(i)
            THEN ret'.ok /\ OnlyStatusSet(i, "approved") /\ ~PendingAt(i)'
            ELSE ~ret'.ok /\ NothingChanged
       /\ reject_adjustment(i) =>
            IF PendingAt(i)
            THEN ret'.ok /\ OnlyStatusSet(i, "rejected") /\ ~PendingAt(i)'
            ELSE ~ret'.ok /\ NothingChanged]_vars

\* a successful approve or reject has just returned, and the list holds an
\* entry that was decided
C1_Witness ==
  /\ ret.ok
  /\ ret.result = << >>
  /\ \E id \in PendingIds : StatusOf(id) \in {"approved", "rejected"}

\* C2: the status of an adjustment is one-directional: EXECUTED, REJECTED and
\* EXPIRED are final, and a status that was left is never entered again (an
\* adjustment that is not PENDING never becomes PENDING, and APPROVED is only
\* left for a final status).
C2_StatusOneDirectional ==
  [][\A id \in DOMAIN adjustments :
       /\ id \in DOMAIN adjustments'
       /\ StatusOf(id) \in {"executed", "rejected", "expired"}
            => adjustments'[id].status = StatusOf(id)
       /\ StatusOf(id) # "pending" => adjustments'[id].status # "pending"
       /\ StatusOf(id) = "approved"
            => adjustments'[id].status \in {"approved", "executed", "expired"}]_vars

\* a rejected entry is still in the pending list after its expiry time, next
\* to the history holding an adjustment in a final status
C2_Witness ==
  /\ \E id \in PendingIds :
       StatusOf(id) = "rejected" /\ now > adjustments[id].expires_at
  /\ adjustment_history # << >>

CostTriggers == {"cost_increase", "cost_decrease"}

KeyOf(adjustment) == ProductKey(adjustment.product_id, adjustment.variant_id)

\* C3: two process_cost_change_alert calls for one product:variant within the
\* matched rule's cooldown_hours of each other produce at most one
\* adjustment: when an adjustment made from a cost alert for the key is less
\* than cooldown_hours old, the call returns None and queues nothing.
C3_CooldownOneAdjustment ==
  [][\A alert \in feed.alerts : \A outcomes \in CallOutcomes(AlertCalls(alert)) :
       ( /\ process_cost_change_alert(alert, outcomes)
         /\ alert.alert_type \in CostTriggers
         /\ ApplicableRules(adjustment_rules, alert.alert_type) # << >>
         /\ \E id \in DOMAIN adjustments :
              /\ adjustments[id].trigger \in CostTriggers
              /\ KeyOf(adjustments[id]) = ProductKey(alert.product_id, alert.variant_id)
              /\ now - adjustments[id].created_at
                   < ApplicableRules(adjustment_rules, alert.alert_type)[1].cooldown_hours )
       => ~ret'.ok /\ NothingChanged]_vars

\* C4: every adjustment produced satisfies |adjustment_percent| <=
\* max_adjustment_percent of the rule that produced it, and
\* |proposed_price - current_price| <= current_price * max_adjustment_percent / 100.
C4_AdjustmentClamped ==
  \A id \in DOMAIN adjustments :
    LET a == adjustments[id]
        cap == RuleOf(a).max_adjustment_percent
    IN  /\ FracAbsLE(a.adjustment_percent, cap)
        /\ Abs(a.proposed_price - a.current_price) * 100 <= a.current_price * cap

\* C5: when the callback returns True for every call, one call of
\* execute_approved_adjustments executes every entry that was APPROVED: each
\* is EXECUTED afterwards, in the history and in the returned list, its key is
\* in last_adjustment_times, and no APPROVED entry is left in the pending list.
C5_ExecutesEveryApproved ==
  [][\A outcomes \in CallOutcomes(Cardinality(Approved)) :
       ( /\ execute_approved_adjustments(outcomes)
         /\ price_update_callback # "none"
         /\ AllTrue(outcomes) )
       => /\ \A i \in Approved :
               LET id == pending_adjustments[i]
               IN  /\ adjustments'[id].status = "executed"
                   /\ InList(adjustment_history', id)
                   /\ InList(ret'.result, id)
                   /\ KeyOf(adjustments[id]) \in DOMAIN last_adjustment_times'
          /\ \A i \in DOMAIN pending_adjustments' :
               adjustments'[pending_adjustments'[i]].status # "approved"]_vars

\* C6: when the callback returns False, raises, or is not configured,
\* executing an adjustment raises nothing and changes nothing:
\* execute_approved_adjustments leaves the adjustments, the pending list, the
\* history and last_adjustment_times as they were (so every APPROVED entry
\* can be retried), and an adjustment that process_cost_change_alert tried to
\* auto-execute stays PENDING, without executed_at, at the end of the pending
\* list, with the history and last_adjustment_times unchanged.
C6_FailedExecutionChangesNothing ==
  [][/\ \A outcomes \in CallOutcomes(Cardinality(Approved)) :
          (AllFail(outcomes) /\ execute_approved_adjustments(outcomes))
          => /\ NothingChanged
             /\ ~ret'.raised
             /\ ret'.result = << >>
     /\ ret'.ok =>
          \A alert \in feed.alerts : \A outcomes \in CallOutcomes(AlertCalls(alert)) :
            (AllFail(outcomes) /\ process_cost_change_alert(alert, outcomes))
            => LET id == ret'.result[1]
               IN  /\ ~ret'.raised
                   /\ Len(adjustments') = Len(adjustments) + 1
                   /\ id = Len(adjustments')
                   /\ \A old \in DOMAIN adjustments : adjustments'[old] = adjustments[old]
                   /\ adjustments'[id].status = "pending"
                   /\ adjustments'[id].executed_at = << >>
                   /\ pending_adjustments' = Append(pending_adjustments, id)
                   /\ UNCHANGED <<adjustment_history, last_adjustment_times>>]_vars

\* the callback was called, did not return True, and the approved entry it was
\* called for is still APPROVED in the pending list
C6_Witness ==
  /\ ret.calls # << >>
  /\ AllFail(ret.calls)
  /\ ret.result = << >>
  /\ \E id \in PendingIds : StatusOf(id) = "approved"

\* rule.auto_execute and adjustment.confidence >= rule.min_confidence, for an
\* adjustment made from a cost alert
AutoEligible(adjustment) ==
  /\ adjustment.trigger \in CostTriggers
  /\ RuleOf(adjustment).auto_execute
  /\ adjustment.confidence >= RuleOf(adjustment).min_confidence

\* C7: an adjustment is executed at creation only if the matched rule has
\* auto_execute set and its confidence >= rule.min_confidence; in every other
\* case it is queued as PENDING; an existing adjustment becomes EXECUTED only
\* from APPROVED, and becomes APPROVED only by an approve_adjustment call on
\* its index that returns True.
C7_ExecutedOnlyIfEligibleOrApproved ==
  [][\A id \in DOMAIN adjustments' :
       IF id \notin DOMAIN adjustments
       THEN /\ adjustments'[id].status = "executed" => AutoEligible(adjustments'[id])
            /\ adjustments'[id].status \in {"executed", "pending"}
            /\ adjustments'[id].status = "pending" => InList(pending_adjustments', id)
       ELSE /\ (adjustments'[id].status = "executed" /\ StatusOf(id) # "executed")
                 => StatusOf(id) = "approved"
            /\ (adjustments'[id].status = "approved" /\ StatusOf(id) # "approved")
                 => \E i \in Indices :
                      /\ approve_adjustment(i)
                      /\ ret'.ok
                      /\ PendingAt(i)
                      /\ pending_adjustments[i + 1] = id]_vars

\* under a rule with auto_execute, one adjustment was executed at creation and
\* another, whose confidence is below min_confidence, was queued as PENDING
C7_Witness ==
  /\ \E id \in DOMAIN adjustments :
       /\ StatusOf(id) = "executed"
       /\ adjustments[id].executed_at = <<adjustments[id].created_at>>
       /\ AutoEligible(adjustments[id])
  /\ \E id \in PendingIds :
       /\ StatusOf(id) = "pending"
       /\ RuleOf(adjustments[id]).auto_execute
       /\ ~AutoEligible(adjustments[id])

\* C8: after cleanup_expired_adjustments the pending list holds no entry whose
\* expires_at is earlier than the time of the call, whatever its status, and
\* every such entry is in the history.
C8_NoExpiredEntryLeft ==
  [][cleanup_expired_adjustments
       => /\ \A i \in DOMAIN pending_adjustments' :
               ~(adjustments'[pending_adjustments'[i]].expires_at < now)
          /\ \A id \in PendingIds :
               adjustments[id].expires_at < now => InList(adjustment_history', id)]_vars

\* C9: an APPROVED entry past its expires_at becomes EXPIRED at the next
\* cleanup_expired_adjustments call and is moved to the history.
C9_ApprovedExpires ==
  [][cleanup_expired_adjustments
       => \A id \in PendingIds :
            (StatusOf(id) = "approved" /\ now > adjustments[id].expires_at)
            => /\ adjustments'[id].status = "expired"
               /\ InList(adjustment_history', id)
               /\ ~InList(pending_adjustments', id)]_vars

\* C10: an adjustment returned by process_cost_change_alert moves the price in
\* the direction of the cost change: up (and adjustment_percent > 0) for a
\* cost_increase alert, down (and adjustment_percent < 0) for a cost_decrease.
C10_PriceFollowsCost ==
  [][\A alert \in feed.alerts : \A outcomes \in CallOutcomes(AlertCalls(alert)) :
       (process_cost_change_alert(alert, outcomes) /\ ret'.ok)
       => LET a == adjustments'[ret'.result[1]]
          IN  IF alert.alert_type = "cost_increase"
              THEN a.proposed_price > a.current_price /\ FracGT(a.adjustment_percent, 0)
              ELSE a.proposed_price < a.current_price /\ FracLT(a.adjustment_percent, 0)]_vars

\* C11: process_margin_alert called with a current margin below the margin
\* rule's min_margin_percent returns an adjustment with trigger
\* MARGIN_BELOW_THRESHOLD, status PENDING, confidence 0.9 when the margin is
\* below 10 and 0.7 otherwise, and a proposed price strictly greater than the
\* current price; called with a margin at or above min_margin_percent it
\* returns None and queues nothing.
C11_MarginAlertRaisesPrice ==
  [][\A m \in feed.margins :
       LET applicable_rules == ApplicableRules(adjustment_rules, "margin_below_threshold")
           min_margin == Get(applicable_rules[1].conditions, "min_margin_percent", 15)
       IN  (process_margin_alert(m[1], m[2], m[3]) /\ applicable_rules # << >>)
           => IF m[3] < min_margin
              THEN /\ ret'.ok
                   /\ LET a == adjustments'[ret'.result[1]]
                      IN  /\ a.trigger = "margin_below_threshold"
                          /\ a.status = "pending"
                          /\ a.confidence = (IF m[3] < 10 THEN 900 ELSE 700)
                          /\ a.proposed_price > a.current_price
              ELSE ~ret'.ok /\ NothingChanged]_vars

\* C12: every adjustment produced under a rule whose round_to_cents is 99 has
\* a proposed price whose cents part is 99 (proposed_price mod 100 = 99, with
\* no fraction of a cent), also when it was clamped to max_adjustment_percent.
C12_ProposedPriceEndsIn99 ==
  \A id \in DOMAIN adjustments :
    Get(RuleOf(adjustments[id]).action, "round_to_cents", 99) = 99
      => adjustments[id].proposed_price % Cents(100) = Cents(99)

\* C13: the cooldown check for a product:variant passes if and only if the key
\* was never adjusted or now - last_adjustment_time >= the rule's
\* cooldown_hours: it fails inside the window and passes exactly at the
\* boundary and after it.
C13_CooldownPassesAtBoundary ==
  \A alert \in feed.alerts : \A r \in DOMAIN adjustment_rules :
    LET product_key == ProductKey(alert.product_id, alert.variant_id)
        rule == adjustment_rules[r]
    IN  _check_cooldown(last_adjustment_times, product_key, rule, now)
          <=> \/ product_key \notin DOMAIN last_adjustment_times
              \/ now - last_adjustment_times[product_key] >= rule.cooldown_hours

\* the enabled rules with the alert's trigger, by their position in the list
Matching(alert) ==
  { r \in DOMAIN adjustment_rules :
      /\ adjustment_rules[r].trigger = alert.alert_type
      /\ adjustment_rules[r].enabled }

\* the first of them in rule order
FirstMatching(alert) ==
  adjustment_rules[CHOOSE r \in Matching(alert) : \A q \in Matching(alert) : r <= q]

\* the size of the cost change is below the rule's minimum or above its maximum
OutsideThresholds(alert, rule) ==
  LET change == Frac((alert.new_value - alert.old_value) * 100, alert.old_value)
      lo == IF alert.alert_type = "cost_increase"
            THEN Get(rule.conditions, "min_cost_increase_percent", 0)
            ELSE Get(rule.conditions, "min_cost_decrease_percent", 0)
      hi == IF alert.alert_type = "cost_increase"
            THEN Get(rule.conditions, "max_cost_increase_percent", 100)
            ELSE Get(rule.conditions, "max_cost_decrease_percent", 100)
  IN  FracAbsLT(change, lo) \/ FracAbsGT(change, hi)

CooldownActive(alert, rule) ==
  LET product_key == ProductKey(alert.product_id, alert.variant_id)
  IN  /\ product_key \in DOMAIN last_adjustment_times
      /\ now - last_adjustment_times[product_key] < rule.cooldown_hours

\* C14: process_cost_change_alert returns None and leaves the pending list,
\* the history and last_adjustment_times unchanged whenever the alert kind is
\* not cost_increase/cost_decrease, no enabled rule has the matching trigger
\* (a disabled rule is never used; the first enabled matching rule in rule
\* order is the one used), the cooldown for the key is active, or the size of
\* the cost change is below the rule's minimum or above its maximum.
C14_NoAdjustmentOutsideRule ==
  [][\A alert \in feed.alerts : \A outcomes \in CallOutcomes(AlertCalls(alert)) :
       ( /\ process_cost_change_alert(alert, outcomes)
         /\ \/ alert.alert_type \notin CostTriggers
            \/ Matching(alert) = {}
            \/ CooldownActive(alert, FirstMatching(alert))
            \/ OutsideThresholds(alert, FirstMatching(alert)) )
       => /\ ~ret'.ok
          /\ ret'.calls = << >>
          /\ NothingChanged]_vars

\* the first rule of the list is a disabled cost-increase rule, an adjustment
\* made under the second one was executed, the cooldown it started is still
\* running, and the last call returned nothing
C14_Witness ==
  /\ ~adjustment_rules[1].enabled
  /\ adjustment_rules[1].trigger = "cost_increase"
  /\ \E id \in DOMAIN adjustments :
       /\ StatusOf(id) = "executed"
       /\ adjustments[id].reason = adjustment_rules[2].name
       /\ KeyOf(adjustments[id]) \in DOMAIN last_adjustment_times
       /\ now - last_adjustment_times[KeyOf(adjustments[id])]
            < adjustment_rules[2].cooldown_hours
  /\ Len(adjustments) < MaxAdjustments
  /\ ~ret.ok

(***************************************************************************)
(* PricingMonitor (printify_automation_script_Copy/src/pricing_monitor.py) *)
(*                                                                         *)
(* Costs and prices of the monitor are whole cents.  A profit margin is    *)
(* an exact fraction.  A dict keeps its keys in insertion order and is a   *)
(* sequence of <<key, value>> pairs; the key "product:variant" is the      *)
(* pair ProductKey(product, variant).  A file is << >> when it does not    *)
(* exist and <<document>> otherwise; a document is what json.load gives.   *)
(***************************************************************************)
MaxAlerts == 2
MaxPoints == 2

DictHas(d, k) == \E i \in DOMAIN d : d[i][1] = k

DictGet(d, k) == d[CHOOSE i \in DOMAIN d : d[i][1] = k][2]

\* d[k] = v
DictSet(d, k, v) ==
  IF DictHas(d, k)
  THEN [i \in DOMAIN d |-> IF d[i][1] = k THEN <<k, v>> ELSE d[i]]
  ELSE Append(d, <<k, v>>)

\* datetime.isoformat and datetime.fromisoformat
isoformat(t) == <<"iso", t>>

fromisoformat(text) == text[2]

\* PriceChangeReason: the members and their values
PriceChangeReasonValues ==
  [COST_INCREASE |-> "cost_increase", COST_DECREASE |-> "cost_decrease",
   MARKET_COMPETITION |-> "market_competition", DEMAND_SURGE |-> "demand_surge",
   DEMAND_DROP |-> "demand_drop", MANUAL_ADJUSTMENT |-> "manual_adjustment",
   SEASONAL_ADJUSTMENT |-> "seasonal_adjustment", PROMOTION |-> "promotion"]

\* PriceChangeReason(value): the member with that value
PriceChangeReason(value) ==
  CHOOSE member \in DOMAIN PriceChangeReasonValues :
    PriceChangeReasonValues[member] = value

\* CostData with its __post_init__
CostData(variant_id, base_cost, shipping_cost, processing_fee, total_cost, timestamp) ==
  [variant_id |-> variant_id, base_cost |-> base_cost,
   shipping_cost |-> shipping_cost, processing_fee |-> processing_fee,
   total_cost |-> IF total_cost = 0
                  THEN base_cost + shipping_cost + processing_fee
                  ELSE total_cost,
   currency |-> "USD", timestamp |-> timestamp]

\* PricePoint with its __post_init__
PricePoint(product_id, variant_id, selling_price, cost_data, profit_margin, profit_amount, timestamp, reason) ==
  LET amount == IF profit_amount = 0
                THEN selling_price - cost_data.total_cost
                ELSE profit_amount
      margin == IF FracIsZero(profit_margin) /\ selling_price > 0
                THEN Frac(amount * 100, selling_price)
                ELSE profit_margin
  IN  [product_id |-> product_id, variant_id |-> variant_id,
       selling_price |-> selling_price, cost_data |-> cost_data,
       profit_margin |-> margin, profit_amount |-> amount,
       timestamp |-> timestamp, reason |-> reason]

\* PriceAlert; the message is kept as the words it is made of
PriceAlert(product_id, variant_id, alert_type, old_value, new_value, threshold, severity, message, timestamp, acknowledged) ==
  [product_id |-> product_id, variant_id |-> variant_id,
   alert_type |-> alert_type, old_value |-> old_value, new_value |-> new_value,
   threshold |-> threshold, severity |-> severity, message |-> message,
   timestamp |-> timestamp, acknowledged |-> acknowledged]

cost_increase_threshold == 5
margin_threshold == 20
price_history_days == 90

_determine_cost_alert_severity(cost_change_percent) ==
  IF ~FracAbsLT(cost_change_percent, 25) THEN "critical"
  ELSE IF ~FracAbsLT(cost_change_percent, 15) THEN "high"
  ELSE IF ~FracAbsLT(cost_change_percent, 5) THEN "medium"
  ELSE "low"

(* ------------------------- documents of the files ---------------------- *)
\* {**asdict(cost_data), "timestamp": cost_data.timestamp.isoformat()}
CostDataToJson(cost_data) ==
  [cost_data EXCEPT !.timestamp = isoformat(cost_data.timestamp)]

PricePointToJson(point) ==
  [point EXCEPT !.timestamp = isoformat(point.timestamp),
                !.cost_data = CostDataToJson(point.cost_data),
                !.reason = PriceChangeReasonValues[point.reason]]

PriceAlertToJson(alert) ==
  [alert EXCEPT !.timestamp = isoformat(alert.timestamp)]

\* the document save_data writes
SaveDataDocument(history, costs, clock) ==
  [json |-> TRUE,
   price_history |->
     [i \in DOMAIN history |->
        <<history[i][1],
          [j \in DOMAIN history[i][2] |-> PricePointToJson(history[i][2][j])]>>],
   current_costs |->
     [i \in DOMAIN costs |-> <<costs[i][1], CostDataToJson(costs[i][2])>>],
   pricing_rules |-> "default rules",
   last_updated |-> isoformat(clock)]

\* the record without one of its keys
Without(record, key) == [k \in DOMAIN record \ {key} |-> record[k]]

\* as SaveAlertsDocument, with the acknowledged flags left out of the file
SaveAlertsDocument_without_flags(alerts, clock) ==
  [json |-> TRUE,
   alerts |-> [i \in DOMAIN alerts |->
                 Without(PriceAlertToJson(alerts[i]), "acknowledged")],
   last_updated |-> isoformat(clock)]

\* the document save_alerts writes
SaveAlertsDocument(alerts, clock) ==
  [json |-> TRUE,
   alerts |-> [i \in DOMAIN alerts |-> PriceAlertToJson(alerts[i])],
   last_updated |-> isoformat(clock)]

\* a file json.load cannot read
NotJson == [json |-> FALSE]

CostDataFields ==
  {"variant_id", "base_cost", "shipping_cost", "processing_fee", "total_cost",
   "currency", "timestamp"}

PricePointFields ==
  {"product_id", "variant_id", "selling_price", "cost_data", "profit_margin",
   "profit_amount", "timestamp", "reason"}

PriceAlertFields ==
  {"product_id", "variant_id", "alert_type", "old_value", "new_value",
   "threshold", "severity", "message", "timestamp"}

\* the lookups cost_data["..."] all succeed
CostDataReadable(cost_data) == CostDataFields \subseteq DOMAIN cost_data

PricePointReadable(point_data) ==
  /\ PricePointFields \subseteq DOMAIN point_data
  /\ CostDataReadable(point_data.cost_data)
  /\ \E member \in DOMAIN PriceChangeReasonValues :
       PriceChangeReasonValues[member] = point_data.reason

CostDataFromJson(cost_data) ==
  CostData(cost_data.variant_id, cost_data.base_cost, cost_data.shipping_cost,
           cost_data.processing_fee, cost_data.total_cost,
           fromisoformat(cost_data.timestamp))

PricePointFromJson(point_data) ==
  PricePoint(point_data.product_id, point_data.variant_id,
             point_data.selling_price, CostDataFromJson(point_data.cost_data),
             point_data.profit_margin, point_data.profit_amount,
             fromisoformat(point_data.timestamp),
             PriceChangeReason(point_data.reason))

PriceAlertFromJson(alert_data) ==
  PriceAlert(alert_data.product_id, alert_data.variant_id, alert_data.alert_type,
             alert_data.old_value, alert_data.new_value, alert_data.threshold,
             alert_data.severity, alert_data.message,
             fromisoformat(alert_data.timestamp),
             Get(alert_data, "acknowledged", FALSE))

(* ------------------------------- loading ------------------------------- *)
\* for key, history_data in data.get("price_history", {}).items(): ...; a
\* lookup that fails raises, and what was stored before it stays
RECURSIVE LoadHistoryLoop(_, _, _)
LoadHistoryLoop(items, i, history) ==
  IF i > Len(items)
  THEN [price_history |-> history, raised |-> FALSE]
  ELSE LET key == items[i][1]
           history_data == items[i][2]
       IN  IF \A j \in DOMAIN history_data : PricePointReadable(history_data[j])
           THEN LoadHistoryLoop(items, i + 1,
                  DictSet(history, key,
                          [j \in DOMAIN history_data |->
                             PricePointFromJson(history_data[j])]))
           ELSE [price_history |-> history, raised |-> TRUE]

\* for key, cost_data in data.get("current_costs", {}).items(): ...
RECURSIVE LoadCostsLoop(_, _, _)
LoadCostsLoop(items, i, costs) ==
  IF i > Len(items)
  THEN costs
  ELSE IF CostDataReadable(items[i][2])
       THEN LoadCostsLoop(items, i + 1,
                          DictSet(costs, items[i][1], CostDataFromJson(items[i][2])))
       ELSE costs

\* load_data: the price history and the current costs the instance holds
\* afterwards; every exception is caught and logged
load_data(file, history, costs) ==
  IF Len(file) = 0
  THEN [price_history |-> history, current_costs |-> costs]
  ELSE IF ~file[1].json
  THEN [price_history |-> history, current_costs |-> costs]
  ELSE LET data == file[1]
           loaded == LoadHistoryLoop(Get(data, "price_history", << >>), 1, history)
       IN  IF loaded.raised
           THEN [price_history |-> loaded.price_history, current_costs |-> costs]
           ELSE [price_history |-> loaded.price_history,
                 current_costs |->
                   LoadCostsLoop(Get(data, "current_costs", << >>), 1, costs)]

\* for alert_data in data.get("alerts", []): ... self.active_alerts.append(alert)
RECURSIVE LoadAlertsLoop(_, _, _)
LoadAlertsLoop(entries, i, alerts) ==
  IF i > Len(entries)
  THEN alerts
  ELSE IF PriceAlertFields \subseteq DOMAIN entries[i]
       THEN LoadAlertsLoop(entries, i + 1,
                           Append(alerts, PriceAlertFromJson(entries[i])))
       ELSE alerts

\* load_alerts: the alert list the instance holds afterwards
load_alerts(file, alerts) ==
  IF Len(file) = 0
  THEN alerts
  ELSE IF ~file[1].json
  THEN alerts
  ELSE LoadAlertsLoop(Get(file[1], "alerts", << >>), 1, alerts)

(* ------------------------------- queries ------------------------------- *)
\* str(variant_id), as it comes out of history_key.split(':', 1)
Str(variant_id) == <<"str", variant_id>>

RECURSIVE MarginsLoop(_, _, _)
MarginsLoop(history, i, margins) ==
  IF i > Len(history)
  THEN margins
  ELSE IF Len(history[i][2]) = 0
  THEN MarginsLoop(history, i + 1, margins)
  ELSE LET latest_point == history[i][2][Len(history[i][2])]
           product_id == history[i][1][1]
           variant_id == Str(history[i][1][2])
           of_product == IF DictHas(margins, product_id)
                         THEN DictGet(margins, product_id)
                         ELSE << >>
           entry == [profit_margin |-> latest_point.profit_margin,
                     profit_amount |-> latest_point.profit_amount,
                     selling_price |-> latest_point.selling_price,
                     total_cost |-> latest_point.cost_data.total_cost,
                     last_updated |-> isoformat(latest_point.timestamp)]
       IN  MarginsLoop(history, i + 1,
                       DictSet(margins, product_id,
                               DictSet(of_product, variant_id, entry)))

get_current_margins(history) == MarginsLoop(history, 1, << >>)

\* severity "" stands for no severity given
get_active_alerts(alerts, severity) ==
  IF severity # ""
  THEN SelectSeq(alerts, LAMBDA alert : alert.severity = severity
                                        /\ ~alert.acknowledged)
  ELSE SelectSeq(alerts, LAMBDA alert : ~alert.acknowledged)

(* ------------------------------ handlers ------------------------------- *)
\* the alert list and the alert file after self.active_alerts.append(alert);
\* self.save_alerts()
AppendAlert(alert) ==
  /\ active_alerts' = Append(active_alerts, alert)
  /\ alert_file' = <<SaveAlertsDocument(Append(active_alerts, alert), now)>>

\* as track_cost_change, with the changes of less than 1 % reported as well
track_cost_change_reporting_all(product_id, variant_id, new_cost_data) ==
  LET cost_key == ProductKey(product_id, variant_id)
      old_cost_data == DictGet(current_costs, cost_key)
      cost_change == Frac((new_cost_data.total_cost - old_cost_data.total_cost) * 100,
                          old_cost_data.total_cost)
      alert_type == IF FracGT(cost_change, 0) THEN "cost_increase" ELSE "cost_decrease"
      alert == PriceAlert(product_id, variant_id, alert_type,
                          old_cost_data.total_cost, new_cost_data.total_cost,
                          cost_increase_threshold,
                          _determine_cost_alert_severity(cost_change),
                          <<"Cost", alert_type, "detected">>, now, FALSE)
  IN  /\ current_costs' = DictSet(current_costs, cost_key, new_cost_data)
      /\ IF ~DictHas(current_costs, cost_key)
         THEN /\ UNCHANGED <<active_alerts, alert_file>>
              /\ ret' = Returned(FALSE, << >>, << >>, FALSE)
         ELSE IF old_cost_data.total_cost = 0
         THEN /\ UNCHANGED <<active_alerts, alert_file>>
              /\ ret' = Returned(FALSE, << >>, << >>, TRUE)
         ELSE /\ Len(active_alerts) < MaxAlerts
              /\ AppendAlert(alert)
              /\ ret' = Returned(TRUE, <<Len(active_alerts) + 1>>, << >>, FALSE)
      /\ UNCHANGED <<now, price_history, data_file>>

track_cost_change(product_id, variant_id, new_cost_data) ==
  LET cost_key == ProductKey(product_id, variant_id)
      old_cost_data == DictGet(current_costs, cost_key)
      cost_change == Frac((new_cost_data.total_cost - old_cost_data.total_cost) * 100,
                          old_cost_data.total_cost)
      alert_type == IF FracGT(cost_change, 0) THEN "cost_increase" ELSE "cost_decrease"
      alert == PriceAlert(product_id, variant_id, alert_type,
                          old_cost_data.total_cost, new_cost_data.total_cost,
                          cost_increase_threshold,
                          _determine_cost_alert_severity(cost_change),
                          <<"Cost", alert_type, "detected">>, now, FALSE)
  IN  /\ current_costs' = DictSet(current_costs, cost_key, new_cost_data)
      /\ IF ~DictHas(current_costs, cost_key)
         THEN /\ UNCHANGED <<active_alerts, alert_file>>
              /\ ret' = Returned(FALSE, << >>, << >>, FALSE)
         ELSE IF old_cost_data.total_cost = 0
         \* ZeroDivisionError, out of the division by old_cost_data.total_cost
         THEN /\ UNCHANGED <<active_alerts, alert_file>>
              /\ ret' = Returned(FALSE, << >>, << >>, TRUE)
         ELSE IF FracAbsLT(cost_change, 1)
         THEN /\ UNCHANGED <<active_alerts, alert_file>>
              /\ ret' = Returned(FALSE, << >>, << >>, FALSE)
         ELSE /\ Len(active_alerts) < MaxAlerts
              /\ AppendAlert(alert)
              /\ ret' = Returned(TRUE, <<Len(active_alerts) + 1>>, << >>, FALSE)
      /\ UNCHANGED <<now, price_history, data_file>>

\* [point for point in history if point.timestamp > cutoff_date]
_cleanup_old_history(points, clock) ==
  SelectSeq(points, LAMBDA point : point.timestamp > clock - price_history_days * 24)

add_price_point(product_id, variant_id, selling_price, cost_data, reason) ==
  LET price_point == PricePoint(product_id, variant_id, selling_price, cost_data,
                                Frac(0, 1), 0, now, reason)
      history_key == ProductKey(product_id, variant_id)
      before == IF DictHas(price_history, history_key)
                THEN DictGet(price_history, history_key)
                ELSE << >>
      history == DictSet(price_history, history_key,
                         _cleanup_old_history(Append(before, price_point), now))
      alert == PriceAlert(product_id, variant_id, "margin_below_threshold",
                          margin_threshold, price_point.profit_margin,
                          margin_threshold,
                          IF FracLT(price_point.profit_margin, 10)
                          THEN "high" ELSE "medium",
                          <<"Profit margin", "below threshold">>, now, FALSE)
  IN  /\ price_history' = history
      \* _check_profit_margin
      /\ IF FracLT(price_point.profit_margin, margin_threshold)
         THEN /\ Len(active_alerts) < MaxAlerts
              /\ AppendAlert(alert)
         ELSE UNCHANGED <<active_alerts, alert_file>>
      \* save_data
      /\ data_file' = <<SaveDataDocument(history, current_costs, now)>>
      /\ ret' = Returned(FALSE, << >>, << >>, FALSE)
      /\ UNCHANGED <<now, current_costs>>

\* as acknowledge_alert, for an index counted from 1
acknowledge_alert_from_one(alert_index) ==
  /\ IF 1 <= alert_index /\ alert_index <= Len(active_alerts)
     THEN /\ active_alerts' =
               [active_alerts EXCEPT ![alert_index].acknowledged = TRUE]
          /\ alert_file' =
               <<SaveAlertsDocument(
                   [active_alerts EXCEPT ![alert_index].acknowledged = TRUE], now)>>
          /\ ret' = Returned(TRUE, << >>, << >>, FALSE)
     ELSE /\ UNCHANGED <<active_alerts, alert_file>>
          /\ ret' = Returned(FALSE, << >>, << >>, FALSE)
  /\ UNCHANGED <<now, price_history, current_costs, data_file>>

acknowledge_alert(alert_index) ==
  /\ IF 0 <= alert_index /\ alert_index < Len(active_alerts)
     THEN /\ active_alerts' =
               [active_alerts EXCEPT ![alert_index + 1].acknowledged = TRUE]
          /\ alert_file' =
               <<SaveAlertsDocument(
                   [active_alerts EXCEPT ![alert_index + 1].acknowledged = TRUE], now)>>
          /\ ret' = Returned(TRUE, << >>, << >>, FALSE)
     ELSE /\ UNCHANGED <<active_alerts, alert_file>>
          /\ ret' = Returned(FALSE, << >>, << >>, FALSE)
  /\ UNCHANGED <<now, price_history, current_costs, data_file>>

save_data ==
  /\ data_file' = <<SaveDataDocument(price_history, current_costs, now)>>
  /\ ret' = Returned(FALSE, << >>, << >>, FALSE)
  /\ UNCHANGED <<now, price_history, current_costs, active_alerts, alert_file>>

save_alerts ==
  /\ alert_file' = <<SaveAlertsDocument(active_alerts, now)>>
  /\ ret' = Returned(FALSE, << >>, << >>, FALSE)
  /\ UNCHANGED <<now, price_history, current_costs, active_alerts, data_file>>

\* PricingMonitor(data_file, alert_file): a fresh instance on the files there are
PricingMonitor__init__ ==
  LET loaded == load_data(data_file, << >>, << >>)
  IN  /\ price_history' = loaded.price_history
      /\ current_costs' = loaded.current_costs
      /\ active_alerts' = load_alerts(alert_file, << >>)
      /\ ret' = Returned(FALSE, << >>, << >>, FALSE)
      /\ UNCHANGED <<now, data_file, alert_file>>

(* ------------------------ monitor specification ------------------------ *)
\* what is in the files before the monitor is constructed: a price point of
\* 100 days ago and one of now for two keys, one current cost, and an
\* acknowledged and an open alert
StoredCost == CostData(1, 800, 200, 0, 0, 0)

StoredHistory ==
  << <<ProductKey("p1", 1),
       <<PricePoint("p1", 1, 1999, CostData(1, 800, 200, 0, 0, -2400),
                    Frac(0, 1), 0, -2400, "MANUAL_ADJUSTMENT")>>>>,
     <<ProductKey("p2", 1),
       <<PricePoint("p2", 1, 1200, StoredCost, Frac(0, 1), 0, 0,
                    "COST_INCREASE")>>>> >>

StoredCosts == << <<ProductKey("p1", 1), StoredCost>> >>

StoredAlerts ==
  << PriceAlert("p2", 1, "margin_below_threshold", margin_threshold,
                Frac(20000, 1200), margin_threshold, "medium",
                <<"Profit margin", "below threshold">>, 0, TRUE),
     PriceAlert("p1", 1, "cost_increase", 1000, 1300, cost_increase_threshold,
                "critical", <<"Cost", "cost_increase", "detected">>, 0, FALSE) >>

\* the data file whose first key is well formed and whose second key holds a
\* point without its "reason"
DamagedDataDocument ==
  LET doc == SaveDataDocument(StoredHistory, StoredCosts, 0)
  IN  [doc EXCEPT !.price_history[2][2][1] = Without(@, "reason")]

\* the alert file whose first alert is well formed and whose second alert is
\* without its "severity"
DamagedAlertsDocument ==
  LET doc == SaveAlertsDocument(StoredAlerts, 0)
  IN  [doc EXCEPT !.alerts[2] = Without(@, "severity")]

\* <<data file, alert file>>: not JSON and missing, as saved, damaged
StartFiles ==
  { << <<NotJson>>, << >> >>,
    << <<SaveDataDocument(StoredHistory, StoredCosts, 0)>>,
       <<SaveAlertsDocument(StoredAlerts, 0)>> >>,
    << <<DamagedDataDocument>>, <<DamagedAlertsDocument>> >> }

\* <<base_cost, shipping_cost, processing_fee, total_cost>> of the costs that
\* are reported for p1: totals of 1000, 1010 (1 % over 1000, and 1000 is
\* 0.99 % under 1010) and 0
CostInputs == { <<800, 200, 0, 0>>, <<810, 200, 0, 1010>>, <<0, 0, 0, 0>> }

\* <<product_id, selling_price, reason>> of the price points that are added,
\* all at a cost of 1000: margins of 49.97 % and 4.76 %
PriceInputs ==
  { <<"p1", 1999, "MANUAL_ADJUSTMENT">>, <<"p2", 1050, "COST_INCREASE">> }

\* alert_index: a negative index, every index of the list, the first one past
\* its end
AlertIndices == -1 .. Len(active_alerts)

PointsOf(history_key) ==
  IF DictHas(price_history, history_key)
  THEN DictGet(price_history, history_key)
  ELSE << >>

\* PricingMonitor.__init__ on the files of the start
InitMonitor ==
  /\ now = 0
  /\ feed = [alerts |-> {}, margins |-> {}]
  /\ adjustment_rules = DefaultRules
  /\ price_update_callback = "none"
  /\ adjustments = << >>
  /\ pending_adjustments = << >>
  /\ adjustment_history = << >>
  /\ last_adjustment_times = << >>
  /\ ret = Returned(FALSE, << >>, << >>, FALSE)
  /\ competitors = << >>
  /\ competitor_prices = << >>
  /\ market_segments = << >>
  /\ market_data_file = << >>
  /\ \E files \in StartFiles :
       /\ data_file = files[1]
       /\ alert_file = files[2]
       /\ price_history = load_data(files[1], << >>, << >>).price_history
       /\ current_costs = load_data(files[1], << >>, << >>).current_costs
       /\ active_alerts = load_alerts(files[2], << >>)
  /\ analyzer = DefaultAnalyzer
  /\ recommendation = << >>
  /\ monitoring_enabled = TRUE
  /\ _stop_monitoring = FALSE
  /\ _monitor_thread = NoThread
  /\ stopping = "idle"
  /\ workers = [t \in Threads |-> Idle]
  /\ applied = << >>

\* the clock stands still here: of the monitor's handlers only
\* _cleanup_old_history compares times, and the point it drops is the stored
\* one of 100 days ago
NextMonitor ==
  \/ \E c \in CostInputs :
       /\ track_cost_change("p1", 1, CostData(1, c[1], c[2], c[3], c[4], now))
       /\ UNCHANGED outsideMonitor
  \/ \E p \in PriceInputs :
       /\ Len(PointsOf(ProductKey(p[1], 1))) < MaxPoints
       /\ add_price_point(p[1], 1, p[2], CostData(1, 800, 200, 0, 0, now), p[3])
       /\ UNCHANGED outsideMonitor
  \/ \E i \in AlertIndices : acknowledge_alert(i) /\ UNCHANGED outsideMonitor
  \/ save_data /\ UNCHANGED outsideMonitor
  \/ save_alerts /\ UNCHANGED outsideMonitor
  \/ PricingMonitor__init__ /\ UNCHANGED outsideMonitor

SpecMonitor == InitMonitor /\ [][NextMonitor]_vars

(* --------------------------- monitor claims ---------------------------- *)
\* the monitor's state apart from the stored current cost
MonitorKeeps(names) ==
  /\ "price_history" \in names => UNCHANGED price_history
  /\ "current_costs" \in names => UNCHANGED current_costs
  /\ "active_alerts" \in names => UNCHANGED <<active_alerts, alert_file>>
  /\ "data_file" \in names => UNCHANGED data_file

\* a previous snapshot is stored for the key and the two totals differ by at
\* least 1 % of the old one
SignificantChange(cost_key, new_cost_data) ==
  /\ DictHas(current_costs, cost_key)
  /\ DictGet(current_costs, cost_key).total_cost # 0
  /\ Abs(new_cost_data.total_cost - DictGet(current_costs, cost_key).total_cost) * 100
       >= DictGet(current_costs, cost_key).total_cost

AlertsKept ==
  /\ Len(active_alerts') >= Len(active_alerts)
  /\ \A i \in DOMAIN active_alerts :
       /\ [active_alerts'[i] EXCEPT !.acknowledged = FALSE]
            = [active_alerts[i] EXCEPT !.acknowledged = FALSE]
       /\ active_alerts[i].acknowledged => active_alerts'[i].acknowledged

\* C16: the alert list is append-only: no operation on a monitor removes or
\* reorders an alert or clears an acknowledged flag; acknowledge_alert(i) sets
\* the flag of the alert at index i of the whole list and nothing else, and
\* for an index out of range returns False and changes nothing;
\* get_active_alerts gives, in the order of the list, exactly the alerts whose
\* flag is not set, and only those of the given severity when one is given.
C16_AlertsAppendOnly ==
  [][/\ AlertsKept
     /\ \A i \in AlertIndices :
          acknowledge_alert(i) =>
            IF 0 <= i /\ i < Len(active_alerts)
            THEN /\ ret'.ok
                 /\ active_alerts' =
                      [active_alerts EXCEPT ![i + 1].acknowledged = TRUE]
            ELSE /\ ~ret'.ok
                 /\ UNCHANGED monitorVars
     /\ \A severity \in {"", "low", "medium", "high", "critical"} :
          LET shown == get_active_alerts(active_alerts', severity)
              Chosen(i) == /\ ~active_alerts'[i].acknowledged
                           /\ severity # "" => active_alerts'[i].severity = severity
          IN  /\ Len(shown) = Cardinality({ i \in DOMAIN active_alerts' : Chosen(i) })
              /\ \A k \in DOMAIN shown :
                   \E i \in DOMAIN active_alerts' :
                     /\ Chosen(i)
                     /\ shown[k] = active_alerts'[i]
                     /\ k = Cardinality({ j \in 1 .. i : Chosen(j) })]_vars

\* the second of two alerts has been acknowledged, the first is still open and
\* is the only one that is shown
C16_Witness ==
  /\ Len(active_alerts) = 2
  /\ ~active_alerts[1].acknowledged
  /\ active_alerts[2].acknowledged
  /\ ret.ok
  /\ get_active_alerts(active_alerts, "") = <<active_alerts[1]>>
  /\ get_active_alerts(active_alerts, "critical") = << >>

\* what a fresh PricingMonitor holds that is constructed on the files that
\* save_data and save_alerts have just written for the state there is
Reloaded ==
  LET loaded == load_data(<<SaveDataDocument(price_history, current_costs, now)>>,
                          << >>, << >>)
  IN  [price_history |-> loaded.price_history,
       current_costs |-> loaded.current_costs,
       active_alerts |->
         load_alerts(<<SaveAlertsDocument(active_alerts, now)>>, << >>)]

\* C17: in every reachable state of a monitor, save_data and save_alerts and
\* then a fresh PricingMonitor on the same files give an instance with the
\* same get_current_margins() and the same get_active_alerts(), for every
\* severity: the same keys, values, flags and order.
C17_SaveLoadRoundTrip ==
  /\ get_current_margins(Reloaded.price_history) = get_current_margins(price_history)
  /\ \A severity \in {"", "low", "medium", "high", "critical"} :
       get_active_alerts(Reloaded.active_alerts, severity)
         = get_active_alerts(active_alerts, severity)

\* two products have margins, one of them after a second price point, and of
\* the two alerts one is acknowledged and one is open
C17_Witness ==
  /\ Len(get_current_margins(price_history)) = 2
  /\ \E i \in DOMAIN price_history : Len(price_history[i][2]) = 2
  /\ Len(active_alerts) = 2
  /\ Len(get_active_alerts(active_alerts, "")) = 1
  /\ Len(current_costs) > 0

\* the data file is missing, is not JSON, or holds a record that cannot be read
DataFileCorrupt(file) ==
  \/ Len(file) = 0
  \/ ~file[1].json
  \/ /\ file[1].json
     /\ \/ \E i \in DOMAIN file[1].price_history :
             \E j \in DOMAIN file[1].price_history[i][2] :
               ~PricePointReadable(file[1].price_history[i][2][j])
        \/ \E i \in DOMAIN file[1].current_costs :
             ~CostDataReadable(file[1].current_costs[i][2])

AlertFileCorrupt(file) ==
  \/ Len(file) = 0
  \/ ~file[1].json
  \/ /\ file[1].json
     /\ \E i \in DOMAIN file[1].alerts :
          ~(PriceAlertFields \subseteq DOMAIN file[1].alerts[i])

\* C18: loading is best-effort: constructing a PricingMonitor on a data file
\* that is missing or corrupt at any point, a file with well-formed first
\* records and a malformed later record included, raises nothing and gives an
\* instance without price history and without current costs, and on such an
\* alert file an instance without alerts.
C18_CorruptFileStartsEmpty ==
  [][PricingMonitor__init__ =>
       /\ ~ret'.raised
       /\ DataFileCorrupt(data_file) =>
            Len(price_history') = 0 /\ Len(current_costs') = 0
       /\ AlertFileCorrupt(alert_file) => Len(active_alerts') = 0]_vars

(* ============================ MarketTracker ============================ *)
\* bounds: the observations a tracker holds, and the one wait of 31 days
MaxObservations == 3
WaitHours == 744
MaxWait == 744

data_retention_days == 90
min_confidence_threshold == 700
recent_days == 30

\* a category is kept as the parts between its colons: "apparel" is
\* <<"apparel">>, "kids:apparel" is <<"kids", "apparel">>
\* f"{competitor_id}:{product_category}"
PriceKey(competitor_id, product_category) == <<competitor_id>> \o product_category

\* key.endswith(f":{category}")
EndsWithCategory(key, category) ==
  /\ Len(key) > Len(category)
  /\ SubSeq(key, Len(key) - Len(category) + 1, Len(key)) = category

\* CompetitorPrice; url None is "None", confidence is in thousandths
CompetitorPrice(competitor_id, competitor_name, product_name, product_category, price, url, availability, timestamp, source, confidence) ==
  [competitor_id |-> competitor_id, competitor_name |-> competitor_name,
   product_name |-> product_name, product_category |-> product_category,
   price |-> price, currency |-> "USD", url |-> url,
   availability |-> availability, shipping_cost |-> "None",
   timestamp |-> timestamp, source |-> source, confidence |-> confidence]

\* _init_default_competitors: the tier of a competitor is a CompetitorTier member
DefaultCompetitors ==
  << <<"printful", [name |-> "Printful", tier |-> [enum |-> "MID_RANGE"]]>>,
     <<"gooten", [name |-> "Gooten", tier |-> [enum |-> "BUDGET"]]>>,
     <<"printify_competitors",
       [name |-> "Other Printify Sellers", tier |-> [enum |-> "MID_RANGE"]]>> >>

(* ------------------------------ statistics ----------------------------- *)
RECURSIVE SeqSum(_)
SeqSum(xs) == IF Len(xs) = 0 THEN 0 ELSE xs[1] + SeqSum(Tail(xs))

SeqMin(xs) == CHOOSE v \in { xs[i] : i \in DOMAIN xs } : \A i \in DOMAIN xs : v <= xs[i]

SeqMax(xs) == CHOOSE v \in { xs[i] : i \in DOMAIN xs } : \A i \in DOMAIN xs : v >= xs[i]

\* the k-th element of sorted(xs)
KthSmallest(xs, k) ==
  CHOOSE v \in { xs[i] : i \in DOMAIN xs } :
    /\ Cardinality({ i \in DOMAIN xs : xs[i] < v }) < k
    /\ k <= Cardinality({ i \in DOMAIN xs : xs[i] <= v })

\* statistics.mean, statistics.median, statistics.stdev (the square root of the
\* sample variance, kept as the variance it is the root of)
mean(xs) == Frac(SeqSum(xs), Len(xs))

median(xs) ==
  IF Len(xs) % 2 = 1
  THEN Frac(KthSmallest(xs, (Len(xs) + 1) \div 2), 1)
  ELSE Frac(KthSmallest(xs, Len(xs) \div 2) + KthSmallest(xs, Len(xs) \div 2 + 1), 2)

stdev(xs) ==
  [sqrt_of |-> Frac(Len(xs) * SeqSum([i \in DOMAIN xs |-> xs[i] * xs[i]])
                      - SeqSum(xs) * SeqSum(xs),
                    Len(xs) * (Len(xs) - 1))]

\* the tier of an average price
TierOf(avg_price) ==
  IF FracLT(avg_price, 1500) THEN "BUDGET"
  ELSE IF FracLT(avg_price, 3000) THEN "MID_RANGE"
  ELSE IF FracLT(avg_price, 5000) THEN "PREMIUM"
  ELSE "LUXURY"

MarketSegment(category, tier, competitor_count, price_range, average_price, median_price, price_volatility, last_updated) ==
  [category |-> category, tier |-> tier, competitor_count |-> competitor_count,
   price_range |-> price_range, average_price |-> average_price,
   median_price |-> median_price, price_volatility |-> price_volatility,
   last_updated |-> last_updated]

(* ------------------------------- handlers ------------------------------ *)
\* [price for price in prices if price.timestamp > cutoff_date]
_cleanup_old_data(prices, clock) ==
  SelectSeq(prices, LAMBDA price : price.timestamp > clock - data_retention_days * 24)

\* the recent prices of one key
RecentPrices(prices, clock) ==
  LET recent == SelectSeq(prices,
                  LAMBDA p : /\ p.timestamp > clock - recent_days * 24
                             /\ p.confidence >= min_confidence_threshold)
  IN  [i \in DOMAIN recent |-> recent[i].price]

\* for key, prices in self.competitor_prices.items(): ...
RECURSIVE CategoryLoop(_, _, _, _, _)
CategoryLoop(prices_by_key, i, category, clock, acc) ==
  IF i > Len(prices_by_key)
  THEN acc
  ELSE IF EndsWithCategory(prices_by_key[i][1], category)
  THEN CategoryLoop(prices_by_key, i + 1, category, clock,
         [category_prices |-> acc.category_prices
                                \o RecentPrices(prices_by_key[i][2], clock),
          competitor_count |-> acc.competitor_count + 1])
  ELSE CategoryLoop(prices_by_key, i + 1, category, clock, acc)

\* _update_market_segment: the market segments afterwards
_update_market_segment(prices_by_key, segments, category, clock) ==
  LET found == CategoryLoop(prices_by_key, 1, category, clock,
                            [category_prices |-> << >>, competitor_count |-> 0])
      category_prices == found.category_prices
  IN  IF Len(category_prices) = 0
      THEN segments
      ELSE DictSet(segments, category,
             MarketSegment(category, TierOf(mean(category_prices)),
                           found.competitor_count,
                           <<SeqMin(category_prices), SeqMax(category_prices)>>,
                           mean(category_prices), median(category_prices),
                           IF Len(category_prices) > 1
                           THEN stdev(category_prices)
                           ELSE [sqrt_of |-> Frac(0, 1)],
                           clock))

\* what add_price_data does to the stored prices and segments; url,
\* availability, source and confidence are its keyword arguments
AddPriceData(known, prices_by_key, segments, competitor_id, product_name, product_category, price, url, availability, source, confidence, clock) ==
  IF ~DictHas(known, competitor_id)
  THEN [ok |-> FALSE, competitor_prices |-> prices_by_key,
        market_segments |-> segments]
  ELSE LET price_point == CompetitorPrice(competitor_id,
                            DictGet(known, competitor_id).name, product_name,
                            product_category, price, url, availability, clock,
                            source, confidence)
           key == PriceKey(competitor_id, product_category)
           before == IF DictHas(prices_by_key, key)
                     THEN DictGet(prices_by_key, key)
                     ELSE << >>
           stored == DictSet(prices_by_key, key,
                             _cleanup_old_data(Append(before, price_point), clock))
       IN  [ok |-> TRUE, competitor_prices |-> stored,
            market_segments |->
              _update_market_segment(stored, segments, product_category, clock)]

\* the number of observations in store
RECURSIVE Observations(_)
Observations(prices_by_key) ==
  IF Len(prices_by_key) = 0
  THEN 0
  ELSE Len(prices_by_key[1][2]) + Observations(Tail(prices_by_key))

add_price_data(competitor_id, product_name, product_category, price, confidence) ==
  LET done == AddPriceData(competitors, competitor_prices, market_segments,
                           competitor_id, product_name, product_category, price,
                           "None", "in_stock", "MANUAL", confidence, now)
  IN  /\ competitor_prices' = done.competitor_prices
      /\ market_segments' = done.market_segments
      /\ ret' = Returned(done.ok, << >>, << >>, FALSE)
      /\ UNCHANGED <<now, competitors, market_data_file>>

\* add_competitor: the tier is a CompetitorTier member
add_competitor(competitor_id, name, tier) ==
  /\ competitors' = DictSet(competitors, competitor_id,
                            [name |-> name, tier |-> [enum |-> tier]])
  /\ ret' = Returned(FALSE, << >>, << >>, FALSE)
  /\ UNCHANGED <<now, competitor_prices, market_segments, market_data_file>>

\* MarketDataSource and CompetitorTier: the members and their values
MarketDataSourceValues ==
  [MANUAL |-> "manual", API |-> "api", SCRAPER |-> "scraper",
   CSV_IMPORT |-> "csv_import"]

CompetitorTierValues ==
  [BUDGET |-> "budget", MID_RANGE |-> "mid_range", PREMIUM |-> "premium",
   LUXURY |-> "luxury"]

\* MarketTracker.save_data, the file it leaves: json.dump writes the file as
\* it goes and raises at the first CompetitorTier member among the
\* competitors, which leaves a truncated file; the exception is caught and
\* logged
MarketTracker_save_data(known, prices_by_key, segments, clock) ==
  IF \E i \in DOMAIN known : "enum" \in DOMAIN known[i][2].tier
  THEN <<NotJson>>
  ELSE <<[json |-> TRUE, competitors |-> known,
          competitor_prices |->
            [i \in DOMAIN prices_by_key |->
               <<prices_by_key[i][1],
                 [j \in DOMAIN prices_by_key[i][2] |->
                    [k \in DOMAIN prices_by_key[i][2][j] \cup {"tier"} |->
                       IF k = "timestamp"
                       THEN isoformat(prices_by_key[i][2][j].timestamp)
                       ELSE IF k = "source"
                       THEN MarketDataSourceValues[prices_by_key[i][2][j].source]
                       ELSE IF k = "tier"
                       THEN prices_by_key[i][2][j].competitor_id
                       ELSE prices_by_key[i][2][j][k]]]>>],
          market_segments |->
            [i \in DOMAIN segments |->
               <<segments[i][1],
                 [segments[i][2] EXCEPT
                    !.tier = CompetitorTierValues[@],
                    !.last_updated = isoformat(@)]>>],
          insights |-> << >>,
          last_saved |-> isoformat(clock)]>>

\* MarketTracker.save_data
tracker_save_data ==
  /\ market_data_file' =
       MarketTracker_save_data(competitors, competitor_prices, market_segments, now)
  /\ ret' = Returned(FALSE, << >>, << >>, FALSE)
  /\ UNCHANGED <<now, competitors, competitor_prices, market_segments>>

\* MarketTracker.load_data on a tracker that holds nothing yet: a missing file
\* loads nothing, and so does one that json.load cannot read (the exception is
\* caught and logged)
MarketTracker_load_data(file) ==
  IF file = << >> \/ ~file[1].json
  THEN [competitors |-> << >>, competitor_prices |-> << >>,
        market_segments |-> << >>]
  ELSE LET data == file[1]
           \* MarketDataSource(value), CompetitorTier(value): the member of
           \* a value
           MarketDataSource(value) ==
             CHOOSE member \in DOMAIN MarketDataSourceValues :
               MarketDataSourceValues[member] = value
           CompetitorTier(value) ==
             CHOOSE member \in DOMAIN CompetitorTierValues :
               CompetitorTierValues[member] = value
       IN  [competitors |-> data.competitors,
            competitor_prices |->
              [i \in DOMAIN data.competitor_prices |->
                 <<data.competitor_prices[i][1],
                   [j \in DOMAIN data.competitor_prices[i][2] |->
                      LET price_dict == data.competitor_prices[i][2][j]
                      IN  [CompetitorPrice(
                             price_dict.competitor_id, price_dict.competitor_name,
                             price_dict.product_name, price_dict.product_category,
                             price_dict.price, price_dict.url,
                             price_dict.availability,
                             fromisoformat(price_dict.timestamp),
                             MarketDataSource(price_dict.source),
                             price_dict.confidence)
                           EXCEPT !.currency = price_dict.currency,
                                  !.shipping_cost = price_dict.shipping_cost]]>>],
            market_segments |->
              [i \in DOMAIN data.market_segments |->
                 LET segment_data == data.market_segments[i][2]
                 IN  <<data.market_segments[i][1],
                       MarketSegment(segment_data.category,
                                     CompetitorTier(segment_data.tier),
                                     segment_data.competitor_count,
                                     segment_data.price_range,
                                     segment_data.average_price,
                                     segment_data.median_price,
                                     segment_data.price_volatility,
                                     fromisoformat(segment_data.last_updated))>>]]

\* MarketTracker(data_file): a fresh tracker on the file there is; the
\* competitors that were loaded are replaced by the default ones
MarketTracker__init__ ==
  LET loaded == MarketTracker_load_data(market_data_file)
  IN  /\ competitor_prices' = loaded.competitor_prices
      /\ market_segments' = loaded.market_segments
      /\ competitors' = DefaultCompetitors
      \* the constructor returns the new tracker
      /\ ret' = Returned(TRUE, << >>, << >>, FALSE)
      /\ UNCHANGED <<now, market_data_file>>

(* ------------------------------ CSV import ----------------------------- *)
\* a cell of a csv.DictReader row: a number as text, another text, or None
\* (the restval of a row that is shorter than the header). The value of a
\* price cell is what float(text) * 100 gives, that of a confidence cell is in
\* thousandths.
Number(value) == [kind |-> "number", value |-> value]

Text(value) == [kind |-> "text", value |-> value]

None == [kind |-> "None", value |-> "None"]

\* float(cell): the ValueError of a text that is no number, the TypeError of None
float(cell) ==
  IF cell.kind = "number" THEN [error |-> "none", value |-> cell.value]
  ELSE IF cell.kind = "text" THEN [error |-> "ValueError", value |-> 0]
  ELSE [error |-> "TypeError", value |-> 0]

\* for row in reader: ...; a ValueError or KeyError skips the row, any other
\* exception leaves the loop
RECURSIVE ImportLoop(_, _, _, _, _, _, _)
ImportLoop(rows, i, known, prices_by_key, segments, imported_count, clock) ==
  IF i > Len(rows)
  THEN [raised |-> FALSE, competitor_prices |-> prices_by_key,
        market_segments |-> segments, imported_count |-> imported_count]
  ELSE LET row == rows[i]
           price == float(Get(row, "price", Number(0)))
           confidence == float(Get(row, "confidence", Number(1000)))
           done == AddPriceData(known, prices_by_key, segments,
                     Get(row, "competitor_id", Text("unknown")).value,
                     Get(row, "product_name", Text("Unknown Product")).value,
                     Get(row, "category", Text(<<"general">>)).value,
                     price.value, Get(row, "url", None).value,
                     Get(row, "availability", Text("in_stock")).value,
                     "CSV_IMPORT", confidence.value, clock)
       IN  IF price.error = "TypeError"
              \/ (price.error = "none" /\ confidence.error = "TypeError")
           THEN [raised |-> TRUE, competitor_prices |-> prices_by_key,
                 market_segments |-> segments, imported_count |-> imported_count]
           ELSE IF price.error = "ValueError" \/ confidence.error = "ValueError"
           THEN ImportLoop(rows, i + 1, known, prices_by_key, segments,
                           imported_count, clock)
           ELSE ImportLoop(rows, i + 1, known, done.competitor_prices,
                           done.market_segments,
                           IF done.ok THEN imported_count + 1 ELSE imported_count,
                           clock)

import_csv_data(rows) ==
  LET done == ImportLoop(rows, 1, competitors, competitor_prices,
                         market_segments, 0, now)
  IN  /\ competitor_prices' = done.competitor_prices
      /\ market_segments' = done.market_segments
      /\ IF done.raised
         THEN /\ ret' = Returned(FALSE, <<0>>, << >>, FALSE)
              /\ UNCHANGED market_data_file
         ELSE /\ ret' = Returned(TRUE, <<done.imported_count>>, << >>, FALSE)
              /\ market_data_file' =
                   MarketTracker_save_data(competitors, done.competitor_prices,
                                           done.market_segments, now)
      /\ UNCHANGED <<now, competitors>>

\* datetime.now() a month and a day later
Wait ==
  /\ now + WaitHours <= MaxWait
  /\ now' = now + WaitHours
  /\ ret' = Returned(FALSE, << >>, << >>, FALSE)
  /\ UNCHANGED <<competitors, competitor_prices, market_segments, market_data_file>>

(* ------------------------ tracker specification ------------------------ *)
\* <<competitor_id, product_category, price, confidence>> of the observations
\* that are added: one at the confidence floor, one under it, one of the
\* category "kids:apparel", one of a competitor that is not known at first
ObservationInputs ==
  { <<"printful", <<"apparel">>, 2000, 1000>>,
    <<"gooten", <<"apparel">>, 1200, 700>>,
    <<"gooten", <<"apparel">>, 900, 500>>,
    <<"printful", <<"kids", "apparel">>, 6000, 1000>>,
    <<"nobody", <<"apparel">>, 1000, 1000>> }

\* a row of a CSV file with the header
\* competitor_id,product_name,category,price,confidence
Row(competitor_id, product_name, category, price, confidence) ==
  [competitor_id |-> competitor_id, product_name |-> product_name,
   category |-> category, price |-> price, confidence |-> confidence]

\* the CSV files that are imported: with a price that is no number; with an
\* unknown competitor and a confidence that is no number; with a row that
\* stops after the category; with no price column
CsvFiles ==
  << << Row(Text("printful"), Text("a"), Text(<<"apparel">>), Number(1000), Number(900)),
        Row(Text("printful"), Text("b"), Text(<<"apparel">>), Text("abc"), Number(900)),
        Row(Text("printful"), Text("c"), Text(<<"apparel">>), Number(1200), Number(900)) >>,
     << Row(Text("nobody"), Text("a"), Text(<<"apparel">>), Number(1000), Number(900)),
        Row(Text("gooten"), Text("b"), Text(<<"apparel">>), Number(1100), Text("high")),
        Row(Text("gooten"), Text("c"), Text(<<"apparel">>), Number(1200), Number(900)) >>,
     << Row(Text("printful"), Text("a"), Text(<<"apparel">>), Number(1000), Number(900)),
        Row(Text("printful"), Text("b"), Text(<<"apparel">>), None, None),
        Row(Text("printful"), Text("c"), Text(<<"apparel">>), Number(1200), Number(900)) >>,
     << Without(Row(Text("printful"), Text("a"), Text(<<"apparel">>), None, Number(900)),
                "price") >> >>

\* MarketTracker.__init__ with no data file there
InitTracker ==
  /\ now = 0
  /\ feed = [alerts |-> {}, margins |-> {}]
  /\ adjustment_rules = DefaultRules
  /\ price_update_callback = "none"
  /\ adjustments = << >>
  /\ pending_adjustments = << >>
  /\ adjustment_history = << >>
  /\ last_adjustment_times = << >>
  /\ ret = Returned(FALSE, << >>, << >>, FALSE)
  /\ price_history = << >>
  /\ current_costs = << >>
  /\ active_alerts = << >>
  /\ data_file = << >>
  /\ alert_file = << >>
  /\ competitors = DefaultCompetitors
  /\ competitor_prices = << >>
  /\ market_segments = << >>
  /\ market_data_file = << >>
  /\ analyzer = DefaultAnalyzer
  /\ recommendation = << >>
  /\ monitoring_enabled = TRUE
  /\ _stop_monitoring = FALSE
  /\ _monitor_thread = NoThread
  /\ stopping = "idle"
  /\ workers = [t \in Threads |-> Idle]
  /\ applied = << >>

NextTracker ==
  \/ Wait /\ UNCHANGED outsideTracker
  \/ /\ add_competitor("nobody", "Nobody", "BUDGET")
     /\ UNCHANGED outsideTracker
  \/ \E o \in ObservationInputs :
       /\ Observations(competitor_prices) < MaxObservations
       /\ add_price_data(o[1], "tee", o[2], o[3], o[4])
       /\ UNCHANGED outsideTracker
  \/ \E f \in DOMAIN CsvFiles :
       /\ Observations(competitor_prices) + Len(CsvFiles[f]) <= MaxObservations
       /\ import_csv_data(CsvFiles[f])
       /\ UNCHANGED outsideTracker
  \/ tracker_save_data /\ UNCHANGED outsideTracker
  \/ MarketTracker__init__ /\ UNCHANGED outsideTracker

SpecTracker == InitTracker /\ [][NextTracker]_vars

(* --------------------------- tracker claims ---------------------------- *)
\* every observation in store, key after key
RECURSIVE AllObservations(_)
AllObservations(prices_by_key) ==
  IF Len(prices_by_key) = 0
  THEN << >>
  ELSE prices_by_key[1][2] \o AllObservations(Tail(prices_by_key))

\* the prices of the observations of the category that have a confidence of
\* the floor or more and a timestamp inside the last 30 days
QualifyingPrices(prices_by_key, category, clock) ==
  LET qualifying ==
        SelectSeq(AllObservations(prices_by_key),
                  LAMBDA p : /\ p.product_category = category
                             /\ p.confidence >= min_confidence_threshold
                             /\ p.timestamp > clock - recent_days * 24)
  IN  [i \in DOMAIN qualifying |-> qualifying[i].price]

FracEq(f, g) == f.num * g.den = g.num * f.den

\* C19: after every accepted add_price_data for a category, the stored
\* MarketSegment of the category holds the minimum, maximum, mean, median and
\* tier of exactly the observations of that category with a confidence of the
\* floor or more and a timestamp inside the last 30 days; when no observation
\* qualifies no statistics are kept for the category.
C19_SegmentOverQualifyingObservations ==
  [][\A o \in ObservationInputs :
       (add_price_data(o[1], "tee", o[2], o[3], o[4]) /\ ret'.ok) =>
          LET category == o[2]
              prices == QualifyingPrices(competitor_prices', category, now)
          IN  IF Len(prices) = 0
              THEN ~DictHas(market_segments', category)
              ELSE /\ DictHas(market_segments', category)
                   /\ LET segment == DictGet(market_segments', category)
                      IN  /\ segment.price_range = <<SeqMin(prices), SeqMax(prices)>>
                          /\ FracEq(segment.average_price, mean(prices))
                          /\ FracEq(segment.median_price, median(prices))
                          /\ segment.tier = TierOf(mean(prices))]_vars

\* the row has a known competitor, a price that is a number and a confidence
\* that is a number
WellFormedRow(row) ==
  /\ DictHas(competitors, row.competitor_id.value)
  /\ "price" \in DOMAIN row
  /\ row.price.kind = "number"
  /\ row.confidence.kind = "number"

\* C20: import_csv_data treats the rows one by one: the rows with a price or a
\* confidence that is missing or no number and the rows of an unknown
\* competitor are skipped, every other row of the file is added whatever comes
\* before or after it, and the count returned is the number of observations the
\* call added.
C20_RowsImportedIndependently ==
  [][\A f \in DOMAIN CsvFiles :
       import_csv_data(CsvFiles[f]) =>
         LET added == Observations(competitor_prices') - Observations(competitor_prices)
         IN  /\ ret'.result = <<added>>
             /\ added = Cardinality({ i \in DOMAIN CsvFiles[f] :
                                        WellFormedRow(CsvFiles[f][i]) })]_vars

(* ----------------------- adjuster claims, continued --------------------- *)
\* the costs an impact analysis can have been made for: the new value of an
\* alert of the feed, or the current cost of the margin path
KnownCosts ==
  { Cents(alert.new_value) : alert \in feed.alerts }
    \cup { _get_current_cost(m[1], m[2]) : m \in feed.margins }

\* two fractions are the same number: they agree in lowest terms
RECURSIVE GCD(_, _)
GCD(a, b) == IF b = 0 THEN a ELSE GCD(b, a % b)

InLowestTerms(f) ==
  LET g == GCD(Abs(f.num), Abs(f.den))
  IN  Frac(f.num \div g, f.den \div g)

SameFraction(f, g) == InLowestTerms(f) = InLowestTerms(g)

\* the impact analysis is the one of the price that is proposed
DescribesProposedPrice(a) ==
  /\ a.impact_analysis.price_change = a.proposed_price - a.current_price
  /\ SameFraction(a.impact_analysis.price_change_percent, a.adjustment_percent)
  /\ a.impact_analysis.risk_level =
       IF FracAbsLT(a.adjustment_percent, 5) THEN "low"
       ELSE IF FracAbsLT(a.adjustment_percent, 15) THEN "medium"
       ELSE "high"
  /\ \E new_cost \in KnownCosts :
       SameFraction(a.impact_analysis.new_margin_percent,
                    Frac((a.proposed_price - new_cost) * 100, a.proposed_price))

\* C25: the impact analysis attached to an adjustment describes the price
\* that is proposed: its price_change is proposed_price - current_price, its
\* price_change_percent is the adjustment_percent, its new margin and its risk
\* level are those of the proposed price, also when the adjustment was clamped
\* to max_adjustment_percent.
C25_ImpactDescribesProposedPrice ==
  \A id \in DOMAIN adjustments : DescribesProposedPrice(adjustments[id])

\* C26: no adjustment is executed after it has expired: every EXECUTED
\* adjustment has executed_at <= expires_at, whether or not
\* cleanup_expired_adjustments was called before execute_approved_adjustments.
C26_NoExecutionAfterExpiry ==
  \A id \in DOMAIN adjustments :
    StatusOf(id) = "executed" =>
      /\ Len(adjustments[id].executed_at) = 1
      /\ adjustments[id].executed_at[1] <= adjustments[id].expires_at

\* get_pending_adjustments(): the entries of the pending list whose status is
\* PENDING, in the order of the list
get_pending_adjustments ==
  SelectSeq(pending_adjustments, LAMBDA id : adjustments[id].status = "pending")

HistoryIds == { adjustment_history[i] : i \in DOMAIN adjustment_history }

NoDuplicates(list) ==
  \A i, j \in DOMAIN list : list[i] = list[j] => i = j

\* C27: in every state reached by single-threaded calls the pending list and
\* the history partition the adjustments by status: a history entry is EXECUTED
\* or EXPIRED, a pending-list entry is PENDING, APPROVED or REJECTED, no
\* adjustment is in both lists or twice in one, an EXECUTED entry has
\* executed_at set and its product key in last_adjustment_times, and
\* get_pending_adjustments returns exactly the PENDING entries of the list
C27_ListsPartitionByStatus ==
  /\ \A id \in HistoryIds : StatusOf(id) \in {"executed", "expired"}
  /\ \A id \in PendingIds : StatusOf(id) \in {"pending", "approved", "rejected"}
  /\ PendingIds \cap HistoryIds = {}
  /\ PendingIds \cup HistoryIds = DOMAIN adjustments
  /\ NoDuplicates(pending_adjustments)
  /\ NoDuplicates(adjustment_history)
  /\ \A id \in DOMAIN adjustments :
       StatusOf(id) = "executed" =>
         /\ Len(adjustments[id].executed_at) = 1
         /\ KeyOf(adjustments[id]) \in DOMAIN last_adjustment_times
  /\ { get_pending_adjustments[i] : i \in DOMAIN get_pending_adjustments }
       = { id \in PendingIds : StatusOf(id) = "pending" }
  /\ NoDuplicates(get_pending_adjustments)

\* an executed and an expired entry in the history while the pending list
\* holds nothing
C27_Witness ==
  /\ Len(adjustment_history) = 2
  /\ StatusOf(adjustment_history[1]) # StatusOf(adjustment_history[2])
  /\ pending_adjustments = << >>

\* the adjustments a step creates
Created == { id \in DOMAIN adjustments' : id \notin DOMAIN adjustments }

\* C28: after an adjustment for a product:variant key was EXECUTED at time t,
\* no new adjustment for that key is created before t + cooldown_hours of the
\* rule that matches the new trigger, neither by process_cost_change_alert nor
\* by process_margin_alert
C28_NoAdjustmentInsideCooldown ==
  [][\A id \in Created : \A e \in DOMAIN adjustments :
       ( /\ adjustments[e].status = "executed"
         /\ KeyOf(adjustments[e]) = KeyOf(adjustments'[id]) )
       => now' >= adjustments[e].executed_at[1]
                    + ApplicableRules(adjustment_rules, adjustments'[id].trigger)[1].cooldown_hours]_vars

(* ----------------------- monitor claims, continued ---------------------- *)
\* C22: no engine operation raises on zero-valued inputs; track_cost_change
\* returns an alert or None, also when the total cost stored for the key is 0
C22_TrackCostChangeNeverRaises ==
  [][\A c \in CostInputs :
       track_cost_change("p1", 1, CostData(1, c[1], c[2], c[3], c[4], now))
         => ~ret'.raised]_vars

(* ------------- the adjuster together with its pricing monitor ----------- *)
\* PriceAdjuster(pricing_monitor, cost_analyzer): the adjuster and the monitor
\* it holds are called in turn.  One cost alert and one margin breach are
\* delivered for p1, and the monitor is told a total of 1000 and a price of
\* 19.99.  The clock stands still here, and the adjuster starts with one
\* adjustment that it proposed MaxTime hours ago and that has expired since.
EngineAlert == Alert("p1", "cost_increase", 1100, 1210, "medium")

EngineScenario == Scenario(DefaultRules, { EngineAlert }, { <<"p1", 1, 5>> })

\* a PriceAdjuster whose PricingMonitor found no files, MaxTime hours after it
\* answered its first cost alert
InitEngine ==
  /\ now = 0
  /\ feed = [alerts |-> EngineScenario.alerts, margins |-> EngineScenario.margins]
  /\ adjustment_rules = EngineScenario.rules
  /\ price_update_callback = "none"
  /\ adjustments =
       _calculate_cost_change_adjustment(
         EngineAlert, ApplicableRules(EngineScenario.rules, "cost_increase")[1],
         0 - MaxTime)
  /\ pending_adjustments = <<1>>
  /\ adjustment_history = << >>
  /\ last_adjustment_times = << >>
  /\ ret = Returned(FALSE, << >>, << >>, FALSE)
  /\ price_history = << >>
  /\ current_costs = << >>
  /\ active_alerts = << >>
  /\ data_file = << >>
  /\ alert_file = << >>
  /\ competitors = << >>
  /\ competitor_prices = << >>
  /\ market_segments = << >>
  /\ market_data_file = << >>
  /\ analyzer = DefaultAnalyzer
  /\ recommendation = << >>
  /\ monitoring_enabled = TRUE
  /\ _stop_monitoring = FALSE
  /\ _monitor_thread = NoThread
  /\ stopping = "idle"
  /\ workers = [t \in Threads |-> Idle]
  /\ applied = << >>

NextEngine ==
  \/ set_price_update_callback("installed") /\ UNCHANGED outsideAdjuster
  \/ \E alert \in feed.alerts : \E outcomes \in CallOutcomes(AlertCalls(alert)) :
       process_cost_change_alert(alert, outcomes) /\ UNCHANGED outsideAdjuster
  \/ \E m \in feed.margins :
       process_margin_alert(m[1], m[2], m[3]) /\ UNCHANGED outsideAdjuster
  \/ \E i \in Indices : approve_adjustment(i) /\ UNCHANGED outsideAdjuster
  \/ \E i \in Indices : reject_adjustment(i) /\ UNCHANGED outsideAdjuster
  \/ \E outcomes \in CallOutcomes(Cardinality(Approved)) :
       execute_approved_adjustments(outcomes) /\ UNCHANGED outsideAdjuster
  \/ cleanup_expired_adjustments /\ UNCHANGED outsideAdjuster
  \/ \E c \in { <<800, 200, 0, 0>> } :
       /\ track_cost_change("p1", 1, CostData(1, c[1], c[2], c[3], c[4], now))
       /\ UNCHANGED outsideMonitor
  \/ \E p \in { <<"p1", 1999, "MANUAL_ADJUSTMENT">> } :
       /\ Len(PointsOf(ProductKey(p[1], 1))) < MaxPoints
       /\ add_price_point(p[1], 1, p[2], CostData(1, 800, 200, 0, 0, now), p[3])
       /\ UNCHANGED outsideMonitor

SpecEngine == InitEngine /\ [][NextEngine]_vars

\* what a PriceAdjustment captures when it is proposed
Captured(a) ==
  <<a.current_price, a.proposed_price, a.adjustment_percent, a.confidence,
    a.impact_analysis>>

\* the fields that approve, reject, execute and cleanup leave alone
Proposal(a) == [k \in DOMAIN a \ {"status", "executed_at"} |-> a[k]]

\* C23: a PriceAdjustment captures its values at proposal time: no later
\* track_cost_change, add_price_point or creation of another adjustment changes
\* its current_price, proposed_price, adjustment_percent, confidence or
\* impact_analysis; only status and executed_at (and the list it is in) change,
\* and a step of the monitor or one that creates an adjustment changes nothing
\* of the adjustments there are
C23_ValuesCapturedAtProposal ==
  [][/\ \A id \in DOMAIN adjustments :
          /\ id \in DOMAIN adjustments'
          /\ Captured(adjustments'[id]) = Captured(adjustments[id])
          /\ Proposal(adjustments'[id]) = Proposal(adjustments[id])
     /\ (Created # {} \/ monitorVars' # monitorVars) =>
          \A id \in DOMAIN adjustments : adjustments'[id] = adjustments[id]]_vars

\* one adjustment was executed and a second one made, and the monitor was told
\* a cost and a price point
C23_Witness ==
  /\ Len(adjustments) = 2
  /\ adjustments[1].status = "executed"
  /\ adjustments[2].trigger # adjustments[1].trigger
  /\ DictHas(current_costs, ProductKey("p1", 1))
  /\ PointsOf(ProductKey("p1", 1)) # << >>

(* ============================ CostAnalyzer ============================== *)
\* costs and prices in cents; a price and a margin (in percent) are exact
\* fractions
\* CostBreakdown.__post_init__: total_cost is the sum of the parts (of which
\* the base cost is the only one that is read by itself)
CostBreakdown(base_cost, other_costs) ==
  [base_cost |-> base_cost, total_cost |-> base_cost + other_costs]

_assess_market_fit(price, market_position) ==
  LET position_ranges ==
        [budget |-> <<500, 1500>>, mid_range |-> <<1500, 3500>>,
         premium |-> <<3500, 7000>>, luxury |-> <<7000, 20000>>]
      min_price == position_ranges[market_position][1]
      max_price == position_ranges[market_position][2]
  IN  \* min_price <= price <= max_price
      IF ~FracLT(price, min_price) /\ ~FracGT(price, max_price) THEN "excellent"
      ELSE IF FracLT(price, min_price) THEN "too_low"
      \* price <= max_price * 1.2
      ELSE IF price.num * 10 <= max_price * 12 * price.den THEN "acceptable"
      ELSE "too_high"

StrategyData(price, margin, risk, market_fit) ==
  [price |-> price, margin |-> margin, risk |-> risk, market_fit |-> market_fit]

\* max(scores, key=scores.get): the first candidate, in the order of the dict,
\* that no other one beats; confidence in hundredths
_select_best_strategy(config, strategies, market_position, prices) ==
  LET fit_scores ==
        [excellent |-> 25, good |-> 20, acceptable |-> 15, poor |-> 5,
         too_low |-> 8, too_high |-> 3]
      risk_scores == [low |-> 20, medium |-> 15, high |-> 5]
      \* min_margin_threshold <= margin <= max_margin_threshold
      margin_score(data) ==
        IF ~FracLT(data.margin, config.min_margin_threshold)
           /\ ~FracGT(data.margin, config.max_margin_threshold)
        THEN 30
        ELSE IF FracGT(data.margin, config.max_margin_threshold) THEN 10 ELSE 0
      bonus(strategy) ==
        IF strategy = "cost_plus" /\ prices = << >> THEN 15
        ELSE IF strategy = "competitive" /\ prices # << >> THEN 15
        ELSE IF strategy = "value_based" THEN 10
        ELSE 0
      score(i) ==
        LET data == strategies[i][2]
        IN  margin_score(data) + fit_scores[data.market_fit]
              + risk_scores[data.risk] + bonus(strategies[i][1])
      best == CHOOSE i \in DOMAIN strategies :
                /\ \A j \in DOMAIN strategies : score(j) <= score(i)
                /\ \A j \in 1 .. i - 1 : score(j) < score(i)
  IN  [strategy |-> strategies[best][1], data |-> strategies[best][2],
       confidence |-> score(best)]

\* the types of the risk factors, in the order they are appended
_identify_risk_factors(config, cost_breakdown, strategies) ==
  LET cost_sensitivity ==
        \* base_cost / total_cost > 0.7
        IF cost_breakdown.base_cost * 10 > cost_breakdown.total_cost * 7
        THEN <<"cost_sensitivity">> ELSE << >>
      low_margin_strategies ==
        SelectSeq(strategies,
                  LAMBDA s : FracLT(s[2].margin, config.min_margin_threshold))
      margin_risk ==
        IF low_margin_strategies # << >> THEN <<"margin_risk">> ELSE << >>
      price_point_risk ==
        IF \E i \in DOMAIN strategies :
             FracGT(strategies[i][2].price, cost_breakdown.total_cost * 3)
        THEN <<"price_point_risk">> ELSE << >>
  IN  cost_sensitivity \o margin_risk \o price_point_risk

\* the candidates, as the list of the dict's items <<strategy, data>>
Strategies(config, cost_breakdown, market_position, prices) ==
  LET total_cost == cost_breakdown.total_cost
      \* the multipliers 1.2, 1.5, 2.0 and 3.0, in tenths
      value_multipliers ==
        [budget |-> 12, mid_range |-> 15, premium |-> 20, luxury |-> 30]
      cost_plus_price == Frac(total_cost * 100, 100 - config.default_target_margin)
      competitive_price == median(prices)
      competitive_margin ==
        Frac((competitive_price.num - total_cost * competitive_price.den) * 100,
             competitive_price.num)
      value_price == Frac(total_cost * value_multipliers[market_position], 10)
      value_margin ==
        Frac((value_price.num - total_cost * value_price.den) * 100, value_price.num)
      penetration_price == Frac(total_cost * 11, 10)
      premium_price == Frac(total_cost * 10, 4)
  IN  << <<"cost_plus",
           StrategyData(cost_plus_price, Frac(config.default_target_margin, 1), "low",
                        _assess_market_fit(cost_plus_price, market_position))>> >>
      \o (IF prices # << >>
          THEN << <<"competitive",
                    StrategyData(competitive_price, competitive_margin, "medium",
                                 IF FracGT(competitive_margin, config.min_margin_threshold)
                                 THEN "good" ELSE "poor")>> >>
          ELSE << >>)
      \o << <<"value_based",
              StrategyData(value_price, value_margin,
                           IF market_position \in {"budget", "mid_range"}
                           THEN "medium" ELSE "high",
                           _assess_market_fit(value_price, market_position))>>,
            <<"penetration",
              StrategyData(penetration_price, Frac(10, 1), "high", "excellent")>>,
            <<"premium",
              StrategyData(premium_price, Frac(60, 1), "high",
                           _assess_market_fit(premium_price, "premium"))>> >>

\* recommend_pricing_strategy(cost_breakdown, market_position, competitor_prices),
\* with prices for the list of competitor prices; the market_analysis entry of
\* the result, which reads competitor_prices alone, is left out
recommend_pricing_strategy(cost_breakdown, market_position, prices) ==
  LET strategies == Strategies(analyzer, cost_breakdown, market_position,
                               prices)
  IN  /\ recommendation' =
           << [cost_breakdown |-> cost_breakdown,
               strategies |-> strategies,
               recommended |-> _select_best_strategy(analyzer, strategies,
                                                     market_position,
                                                     prices),
               risk_factors |-> _identify_risk_factors(analyzer, cost_breakdown,
                                                       strategies)] >>
      /\ ret' = Returned(TRUE, << >>, << >>, FALSE)
      /\ UNCHANGED <<now, analyzer>>

(* ------------------------ analyzer specification ----------------------- *)
\* an analyzer with the default thresholds, or with a minimum margin of 10 %
InitAnalyzer ==
  /\ now = 0
  /\ feed = [alerts |-> {}, margins |-> {}]
  /\ adjustment_rules = DefaultRules
  /\ price_update_callback = "none"
  /\ adjustments = << >>
  /\ pending_adjustments = << >>
  /\ adjustment_history = << >>
  /\ last_adjustment_times = << >>
  /\ ret = Returned(FALSE, << >>, << >>, FALSE)
  /\ price_history = << >>
  /\ current_costs = << >>
  /\ active_alerts = << >>
  /\ data_file = << >>
  /\ alert_file = << >>
  /\ competitors = << >>
  /\ competitor_prices = << >>
  /\ market_segments = << >>
  /\ market_data_file = << >>
  /\ analyzer \in { DefaultAnalyzer, CostAnalyzer(30, 10, 80) }
  /\ recommendation = << >>
  /\ monitoring_enabled = TRUE
  /\ _stop_monitoring = FALSE
  /\ _monitor_thread = NoThread
  /\ stopping = "idle"
  /\ workers = [t \in Threads |-> Idle]
  /\ applied = << >>

outsideAnalyzer == <<adjusterVars, monitorVars, trackerVars, loopVars, workerVars>>

NextAnalyzer ==
  \E cost_breakdown \in { CostBreakdown(800, 200), CostBreakdown(600, 400),
                           CostBreakdown(2500, 500), CostBreakdown(400, 100) },
     market_position \in {"budget", "mid_range", "premium", "luxury"},
     prices \in { << >>, <<1200>>, <<1100, 2500>>, <<1999, 1050, 1500>> } :
    /\ recommend_pricing_strategy(cost_breakdown, market_position, prices)
    /\ UNCHANGED outsideAnalyzer

SpecAnalyzer == InitAnalyzer /\ [][NextAnalyzer]_vars

(* --------------------------- analyzer claims --------------------------- *)
\* (price - total_cost) / price * 100
MarginOfPrice(price, total_cost) ==
  Frac((price.num - total_cost * price.den) * 100, price.num)

\* C30: every candidate returned by recommend_pricing_strategy reports the margin
\* of its own price, margin = (price - total_cost) / price * 100; the
\* penetration candidate's price yields a 10 % margin and the premium
\* candidate's price a 60 % margin
C30_MarginIsMarginOfPrice ==
  \A r \in DOMAIN recommendation : \A i \in DOMAIN recommendation[r].strategies :
    LET data == recommendation[r].strategies[i][2]
    IN  SameFraction(data.margin,
                     MarginOfPrice(data.price,
                                   recommendation[r].cost_breakdown.total_cost))

(* ----------------------- tracker claims, continued ---------------------- *)
\* the file holds what save_data writes for the state the tracker is in
SavedNow ==
  market_data_file =
    MarketTracker_save_data(competitors, competitor_prices, market_segments, now)

\* C29: MarketTracker state survives a save and reload: a fresh MarketTracker
\* constructed on the file save_data wrote holds the same competitor
\* observations and market segments and still knows every competitor that was
\* registered with add_competitor
C29_StateSurvivesReload ==
  [][(SavedNow /\ MarketTracker__init__) =>
       /\ competitor_prices' = competitor_prices
       /\ market_segments' = market_segments
       /\ \A i \in DOMAIN competitors : DictHas(competitors', competitors[i][1])]_vars

(* ====================== PricingMonitor: the monitoring loop ============= *)
\* as Event_wait, for a loop that sleeps with time.sleep(check_interval): it
\* wakes when the interval is over, whatever the Event says
time_sleep(flag) == FALSE

\* threading.Event.wait(timeout): True at once when the Event is set (or as
\* soon as it is set during the wait), False when the timeout went by with the
\* Event clear
Event_wait(flag) == flag

is_alive(thread) == thread.pc \notin {"none", "done"}

start_monitoring(api_client) ==
  /\ stopping = "idle"
  /\ IF is_alive(_monitor_thread)
     THEN UNCHANGED <<monitoring_enabled, _stop_monitoring, _monitor_thread>>
     ELSE /\ monitoring_enabled' = TRUE
          /\ _stop_monitoring' = FALSE
          /\ _monitor_thread' = Thread("test", api_client)
  /\ ret' = Returned(FALSE, << >>, << >>, FALSE)
  /\ UNCHANGED <<now, stopping>>

\* stop_monitoring, statement by statement
stop_monitoring ==
  \* self.monitoring_enabled = False
  \/ /\ stopping = "idle"
     /\ monitoring_enabled' = FALSE
     /\ stopping' = "set"
     /\ UNCHANGED <<now, ret, _stop_monitoring, _monitor_thread>>
  \* self._stop_monitoring.set()
  \/ /\ stopping = "set"
     /\ _stop_monitoring' = TRUE
     /\ stopping' = "join"
     /\ UNCHANGED <<now, ret, monitoring_enabled, _monitor_thread>>
  \* self._monitor_thread.join(timeout=5), when the thread is alive: it
  \* returns when the thread has ended, and after five seconds when it has not
  \/ /\ stopping = "join"
     /\ stopping' = "idle"
     /\ ret' = Returned(FALSE, << >>, << >>, FALSE)
     /\ UNCHANGED <<now, monitoring_enabled, _stop_monitoring, _monitor_thread>>

outsideLoop ==
  <<adjusterVars, monitorVars, trackerVars, analyzerVars, workerVars>>

\* a step of the thread that runs _monitoring_loop
_monitoring_loop ==
  /\ \* while self.monitoring_enabled and not self._stop_monitoring.is_set()
     \/ /\ _monitor_thread.pc = "test"
        /\ _monitor_thread' =
             [_monitor_thread EXCEPT
                !.pc = IF monitoring_enabled /\ ~_stop_monitoring
                       THEN IF _monitor_thread.api_client THEN "check" ELSE "wait"
                       ELSE "done"]
     \* self._check_cost_updates(api_client), which writes a line to the log
     \/ /\ _monitor_thread.pc = "check"
        /\ _monitor_thread' =
             [_monitor_thread EXCEPT
                !.pc = "wait",
                !.late_checks = IF _stop_monitoring THEN @ + 1 ELSE @]
     \* self._stop_monitoring.wait(self.check_interval)
     \/ /\ _monitor_thread.pc = "wait"
        /\ _monitor_thread' =
             [_monitor_thread EXCEPT !.pc = "test",
                                     !.woke = Event_wait(_stop_monitoring)]
  /\ UNCHANGED <<now, ret, monitoring_enabled, _stop_monitoring, stopping>>
  /\ UNCHANGED outsideLoop

\* a monitor that loaded two alerts and an adjuster that holds one proposal;
\* the loop has not been started
InitLoop ==
  /\ now = 0
  /\ feed = [alerts |-> {}, margins |-> {}]
  /\ adjustment_rules = DefaultRules
  /\ price_update_callback = "none"
  /\ adjustments =
       _calculate_cost_change_adjustment(
         EngineAlert, ApplicableRules(DefaultRules, "cost_increase")[1], 0)
  /\ pending_adjustments = <<1>>
  /\ adjustment_history = << >>
  /\ last_adjustment_times = << >>
  /\ ret = Returned(FALSE, << >>, << >>, FALSE)
  /\ price_history = << >>
  /\ current_costs = << >>
  /\ active_alerts = StoredAlerts
  /\ data_file = << >>
  /\ alert_file = <<SaveAlertsDocument(StoredAlerts, 0)>>
  /\ competitors = << >>
  /\ competitor_prices = << >>
  /\ market_segments = << >>
  /\ market_data_file = << >>
  /\ analyzer = DefaultAnalyzer
  /\ recommendation = << >>
  /\ monitoring_enabled = TRUE
  /\ _stop_monitoring = FALSE
  /\ _monitor_thread = NoThread
  /\ stopping = "idle"
  /\ workers = [t \in Threads |-> Idle]
  /\ applied = << >>

NextLoop ==
  \/ \E api_client \in BOOLEAN :
       start_monitoring(api_client) /\ UNCHANGED outsideLoop
  \/ stop_monitoring /\ UNCHANGED outsideLoop
  \/ _monitoring_loop
  \/ \E i \in AlertIndices : acknowledge_alert(i) /\ UNCHANGED outsideMonitor
  \/ \E i \in Indices : approve_adjustment(i) /\ UNCHANGED outsideAdjuster
  \/ \E i \in Indices : reject_adjustment(i) /\ UNCHANGED outsideAdjuster

\* the loop runs in a thread of its own, which the scheduler does not starve
SpecLoop == InitLoop /\ [][NextLoop]_vars /\ WF_vars(_monitoring_loop)

(* ----------------------------- loop claims ----------------------------- *)
\* the loop performs a cost-update check
Checking == _monitor_thread.pc = "check" /\ _monitor_thread'.pc = "wait"

\* C21 as stated: once stop_monitoring has set the stop signal, the monitoring
\* loop performs no further cost-update check
C21_NoCheckAfterStopSignal ==
  [][_stop_monitoring => ~Checking]_vars

\* C21, amended: once the stop signal is set the loop begins at most one more
\* cost-update check (that of the iteration whose loop test had passed before),
\* passes its test no more, returns from its wait because of the signal and not
\* because the interval is over, and eventually terminates; whatever the loop
\* does, acknowledge_alert, approve_adjustment and reject_adjustment can be
\* called and return
C21_StopsAfterAtMostOneCheck ==
  /\ [](_monitor_thread.late_checks <= 1)
  /\ [][(_stop_monitoring /\ _monitor_thread.pc = "test"
           /\ _monitor_thread'.pc # "test")
          => _monitor_thread'.pc = "done"]_vars
  /\ [][(_stop_monitoring /\ _monitor_thread.pc = "wait"
           /\ _monitor_thread'.pc # "wait")
          => _monitor_thread'.woke]_vars
  /\ (_stop_monitoring ~> ~is_alive(_monitor_thread))
  /\ [](/\ \A i \in AlertIndices :
             ENABLED (acknowledge_alert(i) /\ UNCHANGED outsideMonitor)
        /\ \A i \in Indices :
             /\ ENABLED (approve_adjustment(i) /\ UNCHANGED outsideAdjuster)
             /\ ENABLED (reject_adjustment(i) /\ UNCHANGED outsideAdjuster))

\* the loop has ended after a check that it began with the signal set and a
\* wait that the signal cut short, and an alert was acknowledged meanwhile
C21_Witness ==
  /\ _stop_monitoring
  /\ _monitor_thread.pc = "done"
  /\ _monitor_thread.late_checks = 1
  /\ _monitor_thread.woke
  /\ \A i \in DOMAIN active_alerts : active_alerts[i].acknowledged

(* ================= PriceAdjuster called by several threads ============== *)
\* The methods take no lock, so the statements of two calls interleave.  A
\* step is one statement (or one test with the branch it takes) of one thread.
SetWorker(t, worker) == workers' = [workers EXCEPT ![t] = worker]

\* a thread enters a method
Call(t, op, pc, i) ==
  /\ workers[t].op = "idle"
  /\ SetWorker(t, Worker(op, pc, i, 0, << >>))
  /\ UNCHANGED <<now, ret, adjusterVars, applied>>

\* execute_approved_adjustments with _execute_adjustment, statement by statement
ExecuteStep(t) ==
  LET w == workers[t]
      product_key == KeyOf(adjustments[w.cur])
  IN  /\ w.op = "execute"
      /\ \* for adjustment in self.pending_adjustments: the next entry, or the end
         \/ /\ w.pc = "next"
            /\ IF w.i > Len(pending_adjustments)
               THEN SetWorker(t, Idle)
               ELSE SetWorker(t, [w EXCEPT !.pc = "test", !.i = w.i + 1,
                                           !.cur = pending_adjustments[w.i]])
            /\ UNCHANGED <<now, ret, adjusterVars, applied>>
         \* if adjustment.status == AdjustmentStatus.APPROVED, and in
         \* _execute_adjustment: if self.price_update_callback
         \/ /\ w.pc = "test"
            /\ SetWorker(t, [w EXCEPT !.pc = IF adjustments[w.cur].status = "approved"
                                                /\ price_update_callback # "none"
                                             THEN "call" ELSE "next"])
            /\ UNCHANGED <<now, ret, adjusterVars, applied>>
         \* success = self.price_update_callback(...)
         \/ /\ w.pc = "call"
            /\ \E outcome \in Outcomes :
                 /\ SetWorker(t, [w EXCEPT !.pc = IF outcome = "true" THEN "mark"
                                                  ELSE "next"])
                 /\ applied' = IF outcome = "true" THEN Append(applied, w.cur)
                               ELSE applied
            /\ UNCHANGED <<now, ret, adjusterVars>>
         \* adjustment.status = EXECUTED; adjustment.executed_at = now;
         \* self.last_adjustment_times[product_key] = now
         \/ /\ w.pc = "mark"
            /\ adjustments' = [adjustments EXCEPT ![w.cur].status = "executed",
                                                  ![w.cur].executed_at = <<now>>]
            /\ last_adjustment_times' =
                 [k \in DOMAIN last_adjustment_times \cup {product_key} |->
                    IF k = product_key THEN now ELSE last_adjustment_times[k]]
            /\ SetWorker(t, [w EXCEPT !.pc = "append"])
            /\ UNCHANGED <<now, ret, feed, adjustment_rules, price_update_callback,
                           pending_adjustments, adjustment_history, applied>>
         \* self.adjustment_history.append(adjustment)
         \/ /\ w.pc = "append"
            /\ adjustment_history' = Append(adjustment_history, w.cur)
            /\ SetWorker(t, [w EXCEPT !.pc = "remove"])
            /\ UNCHANGED <<now, ret, feed, adjustment_rules, price_update_callback,
                           adjustments, pending_adjustments, last_adjustment_times,
                           applied>>
         \* if adjustment in self.pending_adjustments:
         \*     self.pending_adjustments.remove(adjustment)
         \/ /\ w.pc = "remove"
            /\ pending_adjustments' = IF InList(pending_adjustments, w.cur)
                                      THEN ListRemove(pending_adjustments, w.cur)
                                      ELSE pending_adjustments
            /\ SetWorker(t, [w EXCEPT !.pc = "next"])
            /\ UNCHANGED <<now, ret, feed, adjustment_rules, price_update_callback,
                           adjustments, adjustment_history, last_adjustment_times,
                           applied>>

\* cleanup_expired_adjustments, statement by statement
CleanupStep(t) ==
  LET w == workers[t]
      id == pending_adjustments[w.i]
      expires == /\ now > adjustments[id].expires_at
                 /\ adjustments[id].status = "pending"
  IN  /\ w.op = "cleanup"
      /\ \* first loop: the next entry of the pending list is marked EXPIRED
         \* and noted when it is PENDING and past its expiry
         \/ /\ w.pc = "scan"
            /\ IF w.i > Len(pending_adjustments)
               THEN /\ SetWorker(t, [w EXCEPT !.pc = "remove", !.i = 1])
                    /\ UNCHANGED adjustments
               ELSE /\ SetWorker(t, [w EXCEPT !.i = w.i + 1,
                                              !.expired = IF expires
                                                          THEN Append(@, id)
                                                          ELSE @])
                    /\ adjustments' =
                         IF expires
                         THEN [adjustments EXCEPT ![id].status = "expired"]
                         ELSE adjustments
            /\ UNCHANGED <<now, ret, feed, adjustment_rules, price_update_callback,
                           pending_adjustments, adjustment_history,
                           last_adjustment_times, applied>>
         \* second loop: self.pending_adjustments.remove(adj), which raises
         \* ValueError when the entry is in the list no more
         \/ /\ w.pc = "remove"
            /\ IF w.i > Len(w.expired)
               THEN SetWorker(t, Idle) /\ UNCHANGED pending_adjustments
               ELSE IF InList(pending_adjustments, w.expired[w.i])
               THEN /\ pending_adjustments' =
                         ListRemove(pending_adjustments, w.expired[w.i])
                    /\ SetWorker(t, [w EXCEPT !.pc = "append"])
               ELSE SetWorker(t, Idle) /\ UNCHANGED pending_adjustments
            /\ UNCHANGED <<now, ret, feed, adjustment_rules, price_update_callback,
                           adjustments, adjustment_history, last_adjustment_times,
                           applied>>
         \* self.adjustment_history.append(adj)
         \/ /\ w.pc = "append"
            /\ adjustment_history' = Append(adjustment_history, w.expired[w.i])
            /\ SetWorker(t, [w EXCEPT !.pc = "remove", !.i = w.i + 1])
            /\ UNCHANGED <<now, ret, feed, adjustment_rules, price_update_callback,
                           adjustments, pending_adjustments, last_adjustment_times,
                           applied>>

\* approve_adjustment and reject_adjustment, statement by statement
DecideStep(t) ==
  LET w == workers[t]
  IN  /\ w.op \in {"approve", "reject"}
      /\ \* the test of the index with
         \* adjustment = self.pending_adjustments[adjustment_index]
         \/ /\ w.pc = "fetch"
            /\ IF 0 <= w.i /\ w.i < Len(pending_adjustments)
               THEN SetWorker(t, [w EXCEPT !.pc = "test",
                                           !.cur = pending_adjustments[w.i + 1]])
               ELSE SetWorker(t, Idle)
            /\ UNCHANGED <<now, ret, adjusterVars, applied>>
         \* if adjustment.status == AdjustmentStatus.PENDING
         \/ /\ w.pc = "test"
            /\ IF adjustments[w.cur].status = "pending"
               THEN SetWorker(t, [w EXCEPT !.pc = "set"])
               ELSE SetWorker(t, Idle)
            /\ UNCHANGED <<now, ret, adjusterVars, applied>>
         \* adjustment.status = AdjustmentStatus.APPROVED (or REJECTED)
         \/ /\ w.pc = "set"
            /\ adjustments' =
                 [adjustments EXCEPT
                    ![w.cur].status = IF w.op = "approve" THEN "approved"
                                      ELSE "rejected"]
            /\ SetWorker(t, Idle)
            /\ UNCHANGED <<now, ret, feed, adjustment_rules, price_update_callback,
                           pending_adjustments, adjustment_history,
                           last_adjustment_times, applied>>

outsideWorkers == <<monitorVars, trackerVars, analyzerVars, loopVars>>

\* an adjuster with a callback that holds a proposal made MaxTime hours ago,
\* which has expired, and one made and approved now
InitWorkers ==
  /\ now = 0
  /\ feed = [alerts |-> {}, margins |-> {}]
  /\ adjustment_rules = DefaultRules
  /\ price_update_callback = "installed"
  /\ adjustments =
       LET rule == ApplicableRules(DefaultRules, "cost_increase")[1]
       IN  _calculate_cost_change_adjustment(EngineAlert, rule, 0 - MaxTime)
             \o << [_calculate_cost_change_adjustment(EngineAlert, rule, 0)[1]
                      EXCEPT !.status = "approved"] >>
  /\ pending_adjustments = <<1, 2>>
  /\ adjustment_history = << >>
  /\ last_adjustment_times = << >>
  /\ ret = Returned(FALSE, << >>, << >>, FALSE)
  /\ price_history = << >>
  /\ current_costs = << >>
  /\ active_alerts = << >>
  /\ data_file = << >>
  /\ alert_file = << >>
  /\ competitors = << >>
  /\ competitor_prices = << >>
  /\ market_segments = << >>
  /\ market_data_file = << >>
  /\ analyzer = DefaultAnalyzer
  /\ recommendation = << >>
  /\ monitoring_enabled = TRUE
  /\ _stop_monitoring = FALSE
  /\ _monitor_thread = NoThread
  /\ stopping = "idle"
  /\ workers = [t \in Threads |-> Idle]
  /\ applied = << >>

NextWorkers ==
  \E t \in Threads :
    \/ Call(t, "execute", "next", 1) /\ UNCHANGED outsideWorkers
    \/ Call(t, "cleanup", "scan", 1) /\ UNCHANGED outsideWorkers
    \/ \E i \in Indices : Call(t, "approve", "fetch", i) /\ UNCHANGED outsideWorkers
    \/ \E i \in Indices : Call(t, "reject", "fetch", i) /\ UNCHANGED outsideWorkers
    \/ ExecuteStep(t) /\ UNCHANGED outsideWorkers
    \/ CleanupStep(t) /\ UNCHANGED outsideWorkers
    \/ DecideStep(t) /\ UNCHANGED outsideWorkers

SpecWorkers == InitWorkers /\ [][NextWorkers]_vars

(* ---------------------------- worker claims ---------------------------- *)
Times(list, x) == Cardinality({ k \in DOMAIN list : list[k] = x })

\* C24: when two threads run execute_approved_adjustments at the same time, or
\* one runs it while the other runs cleanup_expired_adjustments,
\* approve_adjustment or reject_adjustment, the callback applies the price of
\* each adjustment at most once, each adjustment is at most once in the
\* history, and once the calls have returned none is missing from both lists
C24_AppliedOnceAndNoneLost ==
  /\ \A id \in DOMAIN adjustments :
       /\ Times(applied, id) <= 1
       /\ Times(adjustment_history, id) <= 1
  /\ (\A t \in Threads : workers[t].op = "idle") =>
       \A id \in DOMAIN adjustments : id \in PendingIds \cup HistoryIds

====
